---------------------------- MODULE Spec2Model ----------------------------
(***************************************************************************)
(* Model of the KIT crawler repository: the three crawler programs         *)
(* (repeatCrawler.py, departmentCrawler.py, sitemapCrawler.py), the JSON   *)
(* store they share (storage/json_storage.py) and the crawl index that     *)
(* carries state from one process to the next.                             *)
(*                                                                         *)
(* One behaviour follows one data directory (data/test_crawled, written by *)
(* repeatCrawler, or data/first_crawled, written by departmentCrawler and  *)
(* sitemapCrawler) through a sequence of crawler processes.  scheduler.py  *)
(* starts every crawler with subprocess.run, one at a time, so at most one *)
(* process is alive; a process may be stopped before it is done (Crash).   *)
(***************************************************************************)
EXTENDS Integers, Sequences, FiniteSets, TLC

(***************************************************************************)
(* Bounds of the model.                                                    *)
(***************************************************************************)
\* processes started on the data directory in one behaviour
MaxRuns == 2
\* the clock stops here (TicksPerDay ticks make one calendar day)
MaxTime == 2
TicksPerDay == 1
\* the schedule listing has at most this many pages with rows
MaxSchedPages == 2
\* a board listing is followed over at most this many pages
MaxListPages == 2
\* article links on one listing page
MaxLinks == 2
\* different first rows the schedule listing can show
NumSigs == 2
\* requests sent in one behaviour, over all its processes
MaxRequests == 7
\* articles of one board that the normalizer is called on
MaxArticles == 2
\* the dates given to the date filter lie this many days around the cutoff
MaxDays == 2
\* characters of the longest text given to the quality filter
MaxChars == 6
\* calls of save_page on one store
MaxSaves == 3
\* elements of a document given to the content extractor, the body aside
MaxElements == 2
\* the largest max_pages a listing loop is called with
MaxPagesArg == 2
\* words of a title handed to check_and_notify
MaxTitle == 2

(***************************************************************************)
(* Small helpers.                                                          *)
(***************************************************************************)
Range(s) == {s[i] : i \in DOMAIN s}

\* dict.get(key, default)
Get(d, k, default) == IF k \in DOMAIN d THEN d[k] ELSE default

\* d[key] = value
Put(d, k, v) == [x \in (DOMAIN d) \cup {k} |-> IF x = k THEN v ELSE d[x]]

EmptyDict == [x \in {} |-> 0]

\* the lists without repetition over S, of length at most n
RECURSIVE DistinctSeqs(_, _)
DistinctSeqs(S, n) ==
    IF n = 0 THEN {<<>>}
    ELSE LET shorter == DistinctSeqs(S, n - 1)
         IN  shorter \cup
             {Append(s, x) : <<s, x>> \in {p \in shorter \X S : p[2] \notin Range(p[1])}}

(***************************************************************************)
(* URLs.  A URL is kept in the parts urlparse splits it into; the path is  *)
(* a sequence of tokens ("/", a name, ".do"), the query a sequence of      *)
(* <<key, value>> pairs in the order they are written.                     *)
(***************************************************************************)
Url(scheme, host, path, query) ==
    [scheme |-> scheme, host |-> host, path |-> path, query |-> query]

WWW_HOST == <<"www", "kumoh", "ac", "kr">>
BUS_HOST == <<"bus", "kumoh", "ac", "kr">>
ARCHI_HOST == <<"archi", "kumoh", "ac", "kr">>

SCHEDULE_URL == Url("https", WWW_HOST, <<"/", "ko", "/", "schedule_reg", ".do">>, <<>>)
RESTAURANT_URL == Url("https", WWW_HOST, <<"/", "ko", "/", "restaurant", "01", ".do">>, <<>>)
BUS_NOTICE_URL == Url("https", BUS_HOST, <<"/", "bus", "/", "notice", ".do">>, <<>>)
ARCHI_INTRO_URL == Url("https", ARCHI_HOST, <<"/", "archi", "/", "sub0102", ".do">>, <<>>)
ARCHI_BOARD_URL == Url("https", ARCHI_HOST, <<"/", "archi", "/", "sub0201", ".do">>, <<>>)

\* 'needle' in url, for the needles the run loops test
Contains(url, tok) == tok \in Range(url.path)

\* f"{url}?article.offset={offset}" / f"{url}&article.offset={offset}"
PageUrl(url, page_num) ==
    IF page_num = 0 THEN url
    ELSE [url EXCEPT !.query = Append(@, <<"article.offset", ToString(page_num * 10)>>)]

\* the hrefs a board listing can carry: "?mode=view&articleNo=N" and "?mode=view"
Hrefs ==
    { <<<<"mode", "view">>, <<"articleNo", "101">>>>,
      <<<<"mode", "view">>>> }

\* href.startswith('?'): full_url = url.split('?')[0] + href
ArticleUrl(url, href) == [url EXCEPT !.query = href]

\* what one fetched listing page can link to, in document order, no link twice
Listings == DistinctSeqs(Hrefs, MaxLinks)

(***************************************************************************)
(* storage/json_storage.py                                                 *)
(***************************************************************************)
\* the site code as a piece of text: parts[0] of a *.ac.kr host, else the host
\* as it stands (its labels)
_guess_site_from_url(url) ==
    LET parts == url.host
    IN  IF Len(parts) >= 3 /\ SubSeq(parts, Len(parts) - 1, Len(parts)) = <<"ac", "kr">>
        THEN <<parts[1]>>
        ELSE parts

RECURSIVE Strip(_, _)
\* path.strip("/")
Strip(p, c) ==
    IF p = <<>> THEN p
    ELSE IF Head(p) = c THEN Strip(Tail(p), c)
    ELSE IF p[Len(p)] = c THEN Strip(SubSeq(p, 1, Len(p) - 1), c)
    ELSE p

RECURSIVE SlugTokens(_)
SlugTokens(p) ==
    IF p = <<>> THEN <<>>
    ELSE IF Head(p) \in {".do", ".jsp"} THEN SlugTokens(Tail(p))
    ELSE <<IF Head(p) = "/" THEN "_" ELSE Head(p)>> \o SlugTokens(Tail(p))

_slug_from_path(path) ==
    LET p == Strip(path, "/")
    IN  IF p = <<>> THEN <<"root">> ELSE SlugTokens(p)

\* parse_qs(parsed.query).get("articleNo", [""])[0]; parse_qs drops blank values
ArticleNo(query) ==
    LET hits == SelectSeq(query, LAMBDA kv : kv[1] = "articleNo" /\ kv[2] # "")
    IN  IF hits = <<>> THEN "" ELSE hits[1][2]

\* a normalizer whose page branch keeps the article number of the query in
\* the doc_id
_build_normalized_doc_with_query(url, title, text, metadata, crawled_at) ==
    LET site == IF Get(metadata, "site", <<>>) # <<>> THEN metadata["site"]
                ELSE _guess_site_from_url(url)
        article_no == ArticleNo(url.query)
    IN  [doc_id |-> IF Get(metadata, "page_type", "page") = "board_notice"
                    THEN site \o <<"_notice_", article_no>>
                    ELSE site \o <<"_page_">> \o _slug_from_path(url.path)
                              \o <<article_no>>,
         source_type |-> IF Get(metadata, "page_type", "page") = "board_notice"
                         THEN "board" ELSE "page",
         doc_type |-> "html", url |-> url, title |-> Get(metadata, "title", ""),
         main_text |-> text, crawled_at |-> crawled_at]

\* JSONStorage._build_normalized_doc: the document, with the fields that carry
\* its identity and the ones that carry what was extracted from the page
_build_normalized_doc(url, title, text, metadata, crawled_at) ==
    LET site == IF Get(metadata, "site", <<>>) # <<>> THEN metadata["site"]
                ELSE _guess_site_from_url(url)
        page_type == Get(metadata, "page_type", "page")
        article_no == ArticleNo(url.query)
        common == [url |-> url, title |-> Get(metadata, "title", ""),
                   main_text |-> text, crawled_at |-> crawled_at]
    IN  IF page_type = "board_notice"
        THEN [doc_id |-> IF article_no # ""
                         THEN site \o <<"_notice_", article_no>>
                         ELSE site \o <<"_notice_">> \o _slug_from_path(url.path),
              source_type |-> "board",
              doc_type |-> "html"] @@ common
        ELSE [doc_id |-> site \o <<"_page_">> \o _slug_from_path(url.path),
              source_type |-> "page",
              doc_type |-> IF text = "" /\ Get(metadata, "images", <<>>) # <<>>
                           THEN "image_html" ELSE "html"] @@ common

\* hashlib.sha256(url.encode()).hexdigest()[:16] + ".json", taken as injective
FileOf(url) == <<"pages", url>>

\* a store that names the file of a document after its doc_id
save_page_by_doc_id(files, url, metadata, extracted_text, title, crawled_at) ==
    LET doc == _build_normalized_doc(url, title, extracted_text, metadata, crawled_at)
    IN  Put(files, <<"pages", doc.doc_id>>, doc)

\* JSONStorage.save_page(url, html, metadata, extracted_text, title), called
\* at crawled_at: one file per URL hash, written over on every save.  The
\* text is the one handed over or, without one, the one save_page extracts
\* from the html.
save_page(files, url, metadata, extracted_text, title, crawled_at) ==
    LET title_text == IF title # "" THEN title ELSE "no title"
        meta == IF "title" \in DOMAIN metadata THEN metadata
                ELSE Put(metadata, "title", title_text)
    IN  Put(files, FileOf(url),
            _build_normalized_doc(url, title_text, extracted_text, meta, crawled_at))

\* The crawler processes are followed without the text of the pages they
\* fetch: every page a process fetches has this content and is saved at
\* this time of day.
PAGE == [title |-> "title", text |-> "text", images |-> <<>>]
CRAWLED_AT == "t1"

\* SimpleTestCrawler.crawl_url: the metadata it hands to save_page
Repeat_metadata(context, content) ==
    [k \in {"title", "images", "source_type"} |->
        IF k = "source_type" THEN Get(context, "source_type", "page")
        ELSE content[k]]

\* departmentCrawler.crawl_url: the metadata it hands to save_page
Dept_metadata(page_info, content) ==
    [k \in {"title", "images", "page_type"} |->
        IF k = "page_type" THEN Get(page_info, "page_type", "static_intro")
        ELSE content[k]]

\* the summary appended to saved_pages
Summary(url) == [url |-> url, file |-> FileOf(url)]

\* crawl_index.json: absent, a complete JSON document, or what an interrupted
\* write leaves (an empty file after open(.., 'w'), a prefix after a flush)
NoIndex == [st |-> "absent", pages |-> <<>>, meta |-> EmptyDict]
IndexDoc(pages, meta) == [st |-> "ok", pages |-> pages, meta |-> meta]
Truncated == [st |-> "empty", pages |-> <<>>, meta |-> EmptyDict]
Partial == [st |-> "partial", pages |-> <<>>, meta |-> EmptyDict]


(***************************************************************************)
(* Configuration: the lists the constructors build, cut to one entry of    *)
(* each shape (the schedule page, a restaurant page, a board, a static     *)
(* page, a department board).                                              *)
(***************************************************************************)
target_urls == <<SCHEDULE_URL, RESTAURANT_URL>>

board_urls ==
    << [url |-> BUS_NOTICE_URL, name |-> "bus notice",
        max_pages |-> 0, skip_date_filter |-> FALSE] >>

department_static_urls == << [url |-> ARCHI_INTRO_URL, name |-> "archi intro"] >>

department_board_urls == << [url |-> ARCHI_BOARD_URL, name |-> "archi curriculum"] >>

\* crawl_schedule_lists(url): max_pages keeps its default, 0 = every page
SCHEDULE_MAX_PAGES == 0

Kinds == {"repeat", "department", "sitemap"}

\* the output_dir each program hands to JSONStorage and reads its index from
DirOf(k) == IF k = "repeat" THEN "test_crawled" ELSE "first_crawled"

KEY_FIRST_ITEM == <<"schedule_first_item">>
KEY_LAST_UPDATE == <<"schedule_last_update">>

RECURSIVE LastSegment(_)
\* url.split('/')[-1] of a URL without query
LastSegment(path) ==
    IF path = <<>> \/ path[Len(path)] = "/" THEN <<>>
    ELSE Append(LastSegment(SubSeq(path, 1, Len(path) - 1)), path[Len(path)])

\* f'{restaurant_key}_last_crawl'
RestaurantKey(url) == LastSegment(url.path) \o <<"_last_crawl">>

\* datetime.fromisoformat(ts).date() of a timestamp written by datetime.now().isoformat()
DateOf(ts) == ts \div TicksPerDay

(***************************************************************************)
(* State.                                                                  *)
(***************************************************************************)
VARIABLES
    dir,            \* the data directory this behaviour follows
    indexFile,      \* <dir>/crawl_index.json
    files,          \* <dir>/pages/: file name -> normalized document
    now,            \* the clock (datetime.now()), in ticks
    webSched,       \* the schedule listing as the site serves it
    runs,           \* processes started so far
    kind,           \* the program of the live process, "none" when there is none
    pc,             \* where the live process stands
    idx,            \* position in the list the run loop walks
    page_num,       \* page_num of the listing loop in progress
    article_links,  \* links of the current listing page not handled yet
    static_urls,    \* sitemap candidates not handled yet
    existing_urls,  \* self.existing_urls
    saved_pages,    \* self.saved_pages
    index_meta,     \* self.index_meta
    stats,          \* self.stats
    ev,             \* the operation the last step performed, and the URL it was about
    io,             \* what that step did to the outside: requests, sleeps, saves
    requests,       \* requests sent so far in this behaviour
    call,           \* a library function called on its own: its name and arguments
    ret             \* what that call returned

vars == <<dir, indexFile, files, now, webSched, runs, kind, pc, idx, page_num,
          article_links, static_urls, existing_urls, saved_pages, index_meta,
          stats, ev, io, requests, call, ret>>

NoUrl == Url("", <<>>, <<>>, <<>>)

ZeroStats ==
    [total |-> 0, success |-> 0, failed |-> 0, filtered |-> 0,
     filtered_date |-> 0, skipped |-> 0]

Inc(s, f) == [s EXCEPT ![f] = @ + 1]

\* the process as one record, so that a handler is a function from the state
\* it finds to the state it leaves
Self ==
    [kind |-> kind, pc |-> pc, idx |-> idx, page_num |-> page_num,
     article_links |-> article_links, static_urls |-> static_urls,
     existing_urls |-> existing_urls, saved_pages |-> saved_pages,
     index_meta |-> index_meta, stats |-> stats,
     files |-> files, indexFile |-> indexFile,
     ev |-> ev, io |-> <<>>]

Become(n) ==
    /\ kind' = n.kind
    /\ pc' = n.pc
    /\ idx' = n.idx
    /\ page_num' = n.page_num
    /\ article_links' = n.article_links
    /\ static_urls' = n.static_urls
    /\ existing_urls' = n.existing_urls
    /\ saved_pages' = n.saved_pages
    /\ index_meta' = n.index_meta
    /\ stats' = n.stats
    /\ files' = n.files
    /\ indexFile' = n.indexFile
    /\ ev' = n.ev
    /\ io' = n.io

Emit(P, e) == [P EXCEPT !.io = Append(@, e)]
Get_(url) == <<"get", url>>
Sleep == <<"sleep">>
Saved(url) == <<"save", url>>
\* an except clause ran: which one
Caught(handler) == <<"except", handler>>
On(P, op, url) == [P EXCEPT !.ev = [op |-> op, url |-> url]]

\* no process: every process-local variable at rest
Gone(P) ==
    [P EXCEPT !.kind = "none", !.pc = "idle", !.idx = 0, !.page_num = 0,
              !.article_links = <<>>, !.static_urls = <<>>,
              !.existing_urls = {}, !.saved_pages = <<>>,
              !.index_meta = EmptyDict, !.stats = ZeroStats]

\* what one request and the processing of its answer can turn out like: the
\* request fails, the page is dated before the cutoff, the page is of low
\* quality, writing the page file fails, or none of these.  A field that the
\* earlier ones leave unread is kept at its harmless value.
Responses ==
    {r \in [status : {"ok", "error"}, old : BOOLEAN, quality : BOOLEAN,
            disk : {"ok", "error"}] :
        /\ r.status = "error" => (~r.old /\ r.quality /\ r.disk = "ok")
        /\ r.old => (r.quality /\ r.disk = "ok")
        /\ ~r.quality => r.disk = "ok"}

TypeOK ==
    /\ dir \in {"test_crawled", "first_crawled"}
    /\ indexFile.st \in {"absent", "ok", "empty", "partial"}
    /\ now \in 0..MaxTime
    /\ runs \in 0..MaxRuns
    /\ kind \in Kinds \cup {"none"}
    /\ page_num \in Nat
    /\ stats \in [DOMAIN ZeroStats -> Nat]
    /\ requests \in 0..MaxRequests

\* no library call is under way / no call has returned
NoCall == [fn |-> "none"]
NoRet == [st |-> "none"]

\* the data directory before any process has run on it
Fresh ==
    /\ dir \in {"test_crawled", "first_crawled"}
    /\ indexFile = NoIndex
    /\ files = EmptyDict
    /\ now = 0
    /\ webSched = [pages |-> 0, first |-> 1]
    /\ runs = 0
    /\ kind = "none"
    /\ pc = "idle"
    /\ idx = 0
    /\ page_num = 0
    /\ article_links = <<>>
    /\ static_urls = <<>>
    /\ existing_urls = {}
    /\ saved_pages = <<>>
    /\ index_meta = EmptyDict
    /\ stats = ZeroStats
    /\ ev = [op |-> "none", url |-> NoUrl]
    /\ io = <<>>
    /\ requests = 0

Init ==
    /\ Fresh
    /\ call = NoCall
    /\ ret = NoRet


(***************************************************************************)
(* repeatCrawler.py: SimpleTestCrawler                                     *)
(***************************************************************************)
\* a load that takes the URLs of the index and leaves its summaries behind
Repeat_load_existing_index_urls_only(file) ==
    IF file.st = "ok"
    THEN [existing_urls |-> {file.pages[i].url : i \in DOMAIN file.pages},
          saved_pages |-> <<>>,
          index_meta |-> EmptyDict]
    ELSE [existing_urls |-> {}, saved_pages |-> <<>>, index_meta |-> EmptyDict]

\* a load that restores saved_pages and leaves existing_urls empty
Repeat_load_existing_index_pages_only(file) ==
    IF file.st = "ok"
    THEN [existing_urls |-> {}, saved_pages |-> file.pages, index_meta |-> EmptyDict]
    ELSE [existing_urls |-> {}, saved_pages |-> <<>>, index_meta |-> EmptyDict]

\* The class body defines _load_existing_index twice; the second definition
\* (lines 309-325) is the one the name is bound to.  It reads data['pages']
\* and never data['meta'].  json.load of an empty or cut file raises, and
\* the handler only logs.
Repeat_load_existing_index(file) ==
    IF file.st = "ok"
    THEN [existing_urls |-> {file.pages[i].url : i \in DOMAIN file.pages},
          saved_pages |-> file.pages,
          index_meta |-> EmptyDict]
    ELSE [existing_urls |-> {}, saved_pages |-> <<>>, index_meta |-> EmptyDict]

\* a crawl_url that asks a second time when the request fails
Repeat_crawl_url_retry(P, url, skip_date_filter, context, r) ==
    LET P1 == Emit([P EXCEPT !.stats = Inc(@, "total")], Get_(url))
        metadata == Repeat_metadata(context, PAGE)
    IN  IF r.status = "error"
        THEN [Emit(Emit(P1, Get_(url)), Caught("crawl_url:RequestException")) EXCEPT
                 !.stats = Inc(@, "failed")]
        ELSE IF ~skip_date_filter /\ r.old
        THEN [Emit(P1, <<"date_filter">>) EXCEPT
                 !.stats = Inc(Inc(@, "filtered"), "filtered_date")]
        ELSE LET P2 == Emit(IF skip_date_filter THEN P1
                            ELSE Emit(P1, <<"date_filter">>), <<"quality">>)
             IN  IF ~r.quality
                 THEN [P2 EXCEPT !.stats = Inc(@, "filtered")]
                 ELSE IF r.disk = "error"
                 THEN [Emit(P2, Caught("crawl_url:Exception")) EXCEPT
                          !.stats = Inc(@, "failed")]
                 ELSE [Emit(P2, Saved(url)) EXCEPT
                          !.files = save_page(@, url, metadata, PAGE.text, PAGE.title, CRAWLED_AT),
                          !.saved_pages = Append(@, Summary(url)),
                          !.stats = Inc(@, "success")]

\* a crawl_url that leaves stats["total"] as it is
Repeat_crawl_url_uncounted(P, url, skip_date_filter, context, r) ==
    [Repeat_crawl_url_retry(P, url, skip_date_filter, context, r) EXCEPT
        !.stats.total = P.stats.total]

\* SimpleTestCrawler.crawl_url(url, skip_date_filter, context), answered by r
Repeat_crawl_url(P, url, skip_date_filter, context, r) ==
    LET P1 == Emit([P EXCEPT !.stats = Inc(@, "total")], Get_(url))
        metadata == Repeat_metadata(context, PAGE)
    IN  IF r.status = "error"
        THEN [Emit(P1, Caught("crawl_url:RequestException")) EXCEPT
                 !.stats = Inc(@, "failed")]
        ELSE IF ~skip_date_filter /\ r.old
        THEN [Emit(P1, <<"date_filter">>) EXCEPT
                 !.stats = Inc(Inc(@, "filtered"), "filtered_date")]
        ELSE LET P2 == Emit(IF skip_date_filter THEN P1
                            ELSE Emit(P1, <<"date_filter">>), <<"quality">>)
             IN  IF ~r.quality
                 THEN [P2 EXCEPT !.stats = Inc(@, "filtered")]
                 ELSE IF r.disk = "error"
                 THEN [Emit(P2, Caught("crawl_url:Exception")) EXCEPT
                          !.stats = Inc(@, "failed")]
                 ELSE [Emit(P2, Saved(url)) EXCEPT
                          !.files = save_page(@, url, metadata, PAGE.text, PAGE.title, CRAWLED_AT),
                          !.saved_pages = Append(@, Summary(url)),
                          !.stats = Inc(@, "success")]

\* the value crawl_url returns
Succeeded(skip_date_filter, r) ==
    /\ r.status = "ok"
    /\ skip_date_filter \/ ~r.old
    /\ r.quality
    /\ r.disk = "ok"

\* run(): the board loop starts crawl_list_page for board b, or the loop is over
EnterBoard(P, b) ==
    IF b > Len(board_urls)
    THEN [P EXCEPT !.pc = "save", !.idx = 0, !.page_num = 0]
    ELSE [P EXCEPT !.pc = "list", !.idx = b, !.page_num = 0]

RECURSIVE EnterTarget(_, _)
\* run(): the target loop reaches target i, or goes on to the boards
EnterTarget(P, i) ==
    IF i > Len(target_urls) THEN EnterBoard(P, 1)
    ELSE IF Contains(target_urls[i], "schedule_reg")
    THEN [P EXCEPT !.pc = "sched", !.idx = i, !.page_num = 0]
    ELSE IF Contains(target_urls[i], "restaurant")
    THEN [P EXCEPT !.pc = "restaurant", !.idx = i, !.page_num = 0]
    ELSE EnterTarget(Emit(P, Sleep), i + 1)

\* back in run() after a target: time.sleep(1), next target
LeaveTarget(P) == EnterTarget(Emit(P, Sleep), P.idx + 1)

\* back in run() after a board: time.sleep(1), next board
LeaveBoard(P) == EnterBoard(Emit([P EXCEPT !.article_links = <<>>], Sleep), P.idx + 1)

\* one pass of the while loop of crawl_schedule_lists(url, max_pages), the
\* request answered by r
crawl_schedule_lists(P, max_pages, r) ==
    LET url == target_urls[P.idx]
        page_url == PageUrl(url, P.page_num)
        P0 == On(P, "crawl_schedule_lists", page_url)
        has_rows == P.page_num < webSched.pages
        prev_known == KEY_FIRST_ITEM \in DOMAIN P.index_meta
        unchanged == /\ P.page_num = 0
                     /\ prev_known
                     /\ has_rows
                     /\ P.index_meta[KEY_FIRST_ITEM] = webSched.first
        P1 == Emit(P0, Get_(page_url))
        P2 == IF P.page_num = 0 /\ has_rows /\ ~unchanged
              THEN [P1 EXCEPT !.index_meta =
                        Put(Put(@, KEY_FIRST_ITEM, webSched.first),
                            KEY_LAST_UPDATE, now)]
              ELSE P1
        P3 == Emit([P2 EXCEPT !.stats = Inc(@, "total")], <<"quality">>)
        P4 == [Emit(P3, Saved(page_url)) EXCEPT
                  !.files = save_page(@, page_url, EmptyDict, PAGE.text, PAGE.title, CRAWLED_AT),
                  !.saved_pages = Append(@, Summary(page_url)),
                  !.stats = Inc(@, "success"),
                  !.page_num = @ + 1]
    IN  IF page_url \in P.existing_urls
        THEN [P0 EXCEPT !.stats = Inc(@, "skipped"), !.page_num = @ + 1]
        ELSE IF r.status = "error"
        THEN LeaveTarget(Emit(P1, Caught("crawl_schedule_lists")))
        ELSE IF unchanged THEN LeaveTarget(P1)
        ELSE IF ~has_rows THEN LeaveTarget(P2)
        ELSE IF ~r.quality
        THEN [P3 EXCEPT !.stats = Inc(@, "filtered"), !.page_num = @ + 1]
        ELSE IF r.disk = "error"
        THEN LeaveTarget(Emit(P3, Caught("crawl_schedule_lists")))
        ELSE IF max_pages > 0 /\ P4.page_num >= max_pages
        THEN LeaveTarget(P4)
        ELSE Emit(P4, Sleep)

\* a crawl_restaurant_lists that writes the index as soon as the page is saved
crawl_restaurant_lists_flush(P, r) ==
    LET url == target_urls[P.idx]
        P0 == On(P, "crawl_restaurant_lists", url)
        key == RestaurantKey(url)
        known == url \in P.existing_urls
        dated == key \in DOMAIN P.index_meta
        today == DateOf(now)
        P1 == Emit(IF known THEN [P0 EXCEPT !.existing_urls = @ \ {url}] ELSE P0,
                   Get_(url))
        P2 == Emit([P1 EXCEPT !.stats = Inc(@, "total")], <<"quality">>)
    IN  IF known /\ dated /\ DateOf(P.index_meta[key]) >= today
        THEN LeaveTarget([P0 EXCEPT !.stats = Inc(@, "skipped")])
        ELSE IF known /\ ~dated
        THEN LeaveTarget([P0 EXCEPT !.stats = Inc(@, "skipped")])
        ELSE IF r.status = "error"
        THEN LeaveTarget(Emit(P1, Caught("crawl_restaurant_lists")))
        ELSE IF r.disk = "error"
        THEN LeaveTarget(Emit(P2, Caught("crawl_restaurant_lists")))
        ELSE LeaveTarget([Emit(P2, Saved(url)) EXCEPT
                             !.files = save_page(@, url, EmptyDict, PAGE.text, PAGE.title, CRAWLED_AT),
                             !.saved_pages = Append(@, Summary(url)),
                             !.stats = Inc(@, "success"),
                             !.index_meta = Put(@, key, now),
                             !.indexFile = IndexDoc(Append(P.saved_pages, Summary(url)),
                                                    Put(P.index_meta, key, now))])

\* crawl_restaurant_lists(url): max_pages = 1, every path leaves the loop
crawl_restaurant_lists(P, r) ==
    LET url == target_urls[P.idx]
        P0 == On(P, "crawl_restaurant_lists", url)
        key == RestaurantKey(url)
        known == url \in P.existing_urls
        dated == key \in DOMAIN P.index_meta
        today == DateOf(now)
        P1 == Emit(IF known THEN [P0 EXCEPT !.existing_urls = @ \ {url}] ELSE P0,
                   Get_(url))
        P2 == Emit([P1 EXCEPT !.stats = Inc(@, "total")], <<"quality">>)
    IN  IF known /\ dated /\ DateOf(P.index_meta[key]) >= today
        THEN LeaveTarget([P0 EXCEPT !.stats = Inc(@, "skipped")])
        ELSE IF known /\ ~dated
        THEN LeaveTarget([P0 EXCEPT !.stats = Inc(@, "skipped")])
        ELSE IF r.status = "error"
        THEN LeaveTarget(Emit(P1, Caught("crawl_restaurant_lists")))
        ELSE IF r.disk = "error"
        THEN LeaveTarget(Emit(P2, Caught("crawl_restaurant_lists")))
        ELSE LeaveTarget([Emit(P2, Saved(url)) EXCEPT
                             !.files = save_page(@, url, EmptyDict, PAGE.text, PAGE.title, CRAWLED_AT),
                             !.saved_pages = Append(@, Summary(url)),
                             !.stats = Inc(@, "success"),
                             !.index_meta = Put(@, key, now)])

\* crawl_list_page: the head of the while loop, the listing page answered by
\* ok (the request succeeded) and links (the hrefs found on it)
crawl_list_page_fetch(P, board, ok, links) ==
    LET page_url == PageUrl(board.url, P.page_num)
        P1 == Emit(On(P, "crawl_list_page", page_url), Get_(page_url))
        found == [i \in 1..Len(links) |-> ArticleUrl(board.url, links[i])]
    IN  IF ~ok THEN LeaveBoard(Emit(P1, Caught("crawl_list_page")))
        ELSE IF found = <<>> THEN LeaveBoard(P1)
        ELSE [P1 EXCEPT !.pc = "articles", !.article_links = found]

\* a crawl_list_page that adds the article to existing_urls whatever crawl_url
\* returned
crawl_list_page_article_mark_always(P, board, r) ==
    LET article_url == Head(P.article_links)
        rest == Tail(P.article_links)
        P0 == On(P, "crawl_list_page_article", article_url)
        context == [k \in {"source_type", "board_name"} |->
                       IF k = "source_type" THEN "board" ELSE board.name]
        crawled == Repeat_crawl_url(P0, article_url, board.skip_date_filter,
                                    context, r)
        P1 == IF article_url \in P.existing_urls
              THEN [P0 EXCEPT !.stats = Inc(@, "skipped")]
              ELSE Emit([crawled EXCEPT !.existing_urls = @ \cup {article_url}], Sleep)
        P2 == [P1 EXCEPT !.article_links = rest]
        P3 == [P2 EXCEPT !.page_num = @ + 1]
    IN  IF rest # <<>> THEN P2
        ELSE IF board.max_pages > 0 /\ P3.page_num >= board.max_pages
        THEN LeaveBoard(P3)
        ELSE [Emit(P3, Sleep) EXCEPT !.pc = "list"]

\* crawl_list_page: one pass of the for loop over article_links, and, after
\* the last link, the end of the while loop's pass
crawl_list_page_article(P, board, r) ==
    LET article_url == Head(P.article_links)
        rest == Tail(P.article_links)
        P0 == On(P, "crawl_list_page_article", article_url)
        context == [k \in {"source_type", "board_name"} |->
                       IF k = "source_type" THEN "board" ELSE board.name]
        crawled == Repeat_crawl_url(P0, article_url, board.skip_date_filter,
                                    context, r)
        P1 == IF article_url \in P.existing_urls
              THEN [P0 EXCEPT !.stats = Inc(@, "skipped")]
              ELSE Emit(IF Succeeded(board.skip_date_filter, r)
                        THEN [crawled EXCEPT !.existing_urls = @ \cup {article_url}]
                        ELSE crawled, Sleep)
        P2 == [P1 EXCEPT !.article_links = rest]
        P3 == [P2 EXCEPT !.page_num = @ + 1]
    IN  IF rest # <<>> THEN P2
        ELSE IF board.max_pages > 0 /\ P3.page_num >= board.max_pages
        THEN LeaveBoard(P3)
        ELSE [Emit(P3, Sleep) EXCEPT !.pc = "list"]

\* run(): "if self.saved_pages:" and the open(.., 'w') of save_index
save_index_open(P) ==
    IF P.saved_pages # <<>>
    THEN [On(P, "save_index", NoUrl) EXCEPT !.pc = "writing", !.indexFile = Truncated]
    ELSE [On(P, "save_index", NoUrl) EXCEPT !.pc = "done"]

\* the index_data each program builds: only repeatCrawler adds "meta"
IndexData(P) ==
    IndexDoc(P.saved_pages, IF P.kind = "repeat" THEN P.index_meta ELSE EmptyDict)

\* json.dump into the open file: the buffer may reach the disk in part before
\* the file is closed with everything in it
save_index_write(P, all) ==
    IF all
    THEN [On(P, "save_index", NoUrl) EXCEPT !.pc = "done", !.indexFile = IndexData(P)]
    ELSE [On(P, "save_index", NoUrl) EXCEPT !.indexFile = Partial]


(***************************************************************************)
(* departmentCrawler.py and sitemapCrawler.py                              *)
(***************************************************************************)
\* departmentCrawler.py imports process_page from sendToServer, which does not
\* define it in this tree.  The methods are modelled as they run once the
\* import resolves: the one call of process_page stands in a try/except of
\* its own (lines 553-559), so nothing it does reaches the crawler's state.

\* departmentCrawler._load_existing_index: pages without a url are left out
Dept_load_existing_index(file) ==
    IF file.st = "ok"
    THEN LET kept == SelectSeq(file.pages, LAMBDA page : page.url # NoUrl)
         IN  [existing_urls |-> {kept[i].url : i \in DOMAIN kept},
              saved_pages |-> kept,
              index_meta |-> EmptyDict]
    ELSE [existing_urls |-> {}, saved_pages |-> <<>>, index_meta |-> EmptyDict]

\* a crawl_url that looks the URL up only after it has asked for it
Dept_crawl_url_fetch_first(P, url, page_info, r) ==
    LET P1 == [P EXCEPT !.stats = Inc(@, "total")]
        P2 == Emit(P1, Get_(url))
        P3 == Emit(P2, <<"quality">>)
        metadata == Dept_metadata(page_info, PAGE)
    IN  IF r.status = "error"
        THEN [Emit(P2, Caught("crawl_url:RequestException")) EXCEPT
                 !.stats = Inc(@, "failed")]
        ELSE IF url \in P.existing_urls
        THEN [P2 EXCEPT !.stats = Inc(@, "skipped")]
        ELSE IF ~r.quality
        THEN [P3 EXCEPT !.stats = Inc(@, "filtered")]
        ELSE IF r.disk = "error"
        THEN [Emit(P3, Caught("crawl_url:Exception")) EXCEPT
                 !.stats = Inc(@, "failed")]
        ELSE [Emit(P3, Saved(url)) EXCEPT
                 !.files = save_page(@, url, metadata, PAGE.text, PAGE.title, CRAWLED_AT),
                 !.saved_pages = Append(@, Summary(url)),
                 !.existing_urls = @ \cup {url},
                 !.stats = Inc(@, "success")]

\* departmentCrawler.crawl_url(url, page_info), answered by r
Dept_crawl_url(P, url, page_info, r) ==
    LET P1 == [P EXCEPT !.stats = Inc(@, "total")]
        P2 == Emit(P1, Get_(url))
        P3 == Emit(P2, <<"quality">>)
        metadata == Dept_metadata(page_info, PAGE)
    IN  IF url \in P.existing_urls
        THEN [P1 EXCEPT !.stats = Inc(@, "skipped")]
        ELSE IF r.status = "error"
        THEN [Emit(P2, Caught("crawl_url:RequestException")) EXCEPT
                 !.stats = Inc(@, "failed")]
        ELSE IF ~r.quality
        THEN [P3 EXCEPT !.stats = Inc(@, "filtered")]
        ELSE IF r.disk = "error"
        THEN [Emit(P3, Caught("crawl_url:Exception")) EXCEPT
                 !.stats = Inc(@, "failed")]
        ELSE [Emit(P3, Saved(url)) EXCEPT
                 !.files = save_page(@, url, metadata, PAGE.text, PAGE.title, CRAWLED_AT),
                 !.saved_pages = Append(@, Summary(url)),
                 !.existing_urls = @ \cup {url},
                 !.stats = Inc(@, "success")]

\* run(): the board loop reaches board b, or the loop is over
EnterDeptBoard(P, b) ==
    IF b > Len(department_board_urls)
    THEN [P EXCEPT !.pc = "save", !.idx = 0]
    ELSE [P EXCEPT !.pc = "dboard", !.idx = b]

\* run(): the static loop reaches page i, or goes on to the boards
EnterStatic(P, i) ==
    IF i > Len(department_static_urls) THEN EnterDeptBoard(P, 1)
    ELSE [P EXCEPT !.pc = "static", !.idx = i]

\* run(): one pass of the loop over department_static_urls
run_static(P, r) ==
    LET page == department_static_urls[P.idx]
        info == [k \in {"url", "name"} |-> IF k = "url" THEN "" ELSE page.name]
    IN  EnterStatic(Emit(Dept_crawl_url(On(P, "crawl_url", page.url),
                                        page.url, info, r), Sleep),
                    P.idx + 1)

\* crawl_latest_from_department_board(board_info): the listing answered by ok
\* and links, the newest article by r
crawl_latest_from_department_board(P, ok, links, r) ==
    LET board == department_board_urls[P.idx]
        found == [i \in 1..Len(links) |-> ArticleUrl(board.url, links[i])]
        latest_url == found[1]
        page_info == [k \in {"name", "page_type", "board_name"} |->
                         IF k = "page_type" THEN "board_notice" ELSE board.name]
        P1 == Emit(On(P, "department_board_listing", board.url), Get_(board.url))
        P2 == On(P1, "crawl_latest_from_department_board", latest_url)
    IN  IF ~ok THEN Emit(P1, Caught("crawl_latest_from_department_board"))
        ELSE IF found = <<>> THEN P1
        ELSE IF latest_url \in P.existing_urls
        THEN [P2 EXCEPT !.stats = Inc(@, "skipped")]
        ELSE Dept_crawl_url(P2, latest_url, page_info, r)

\* run(): one pass of the loop over department_board_urls
run_board(P, ok, links, r) ==
    EnterDeptBoard(Emit(crawl_latest_from_department_board(P, ok, links, r), Sleep),
                   P.idx + 1)

SITEMAP_URL == Url("https", WWW_HOST, <<"/", "ko", "/", "ko", ".xml">>, <<>>)

\* entries of EXCLUDED_URLS, as written: with the http scheme
EXCLUDED_URLS ==
    { Url("http", WWW_HOST, <<"/", "ko", "/", "sub01_02_03", ".do">>, <<>>) }

\* what the <loc> elements of the sitemap can hold
SitemapEntries ==
    { Url("http", WWW_HOST, <<"/", "ko", "/", "sub01_01", ".do">>, <<>>),
      Url("https", WWW_HOST, <<"/", "ko", "/", "sub01_01", ".do", "/">>, <<>>),
      Url("http", WWW_HOST, <<"/", "ko", "/", "sub01_02_03", ".do">>, <<>>),
      Url("http", WWW_HOST, <<"/", "ko", "/", "schedule_reg", ".do">>, <<>>),
      Url("http", ARCHI_HOST, <<"/", "archi", "/", "sub0102", ".do">>, <<>>) }

Sitemaps == DistinctSeqs(SitemapEntries, MaxLinks)

\* u.startswith("http://"): u = "https://" + u[len("http://"):]
HttpsOf(u) == IF u.scheme = "http" THEN [u EXCEPT !.scheme = "https"] ELSE u

\* u.startswith("https://www.kumoh.ac.kr/ko/")
UnderKo(u) ==
    /\ u.scheme = "https"
    /\ u.host = WWW_HOST
    /\ Len(u.path) >= 3
    /\ SubSeq(u.path, 1, 3) = <<"/", "ko", "/">>

RECURSIVE RStrip(_)
\* u.rstrip("/") of a URL without query
RStrip(u) ==
    IF u.query = <<>> /\ u.path # <<>> /\ u.path[Len(u.path)] = "/"
    THEN RStrip([u EXCEPT !.path = SubSeq(@, 1, Len(@) - 1)])
    ELSE u

\* any(pat in u for pat in ["mode=", "articleNo=", "search", ..., "reg.do"])
\* and the file endings, on the tokens of the URL
Dynamic(u) ==
    \/ \E i \in DOMAIN u.query : u.query[i][1] \in {"mode", "articleNo", "download"}
    \/ \E i \in DOMAIN u.path :
          u.path[i] \in {"search", "Search", "login", "Login", "fileDownload",
                         "fileDown", "board", "bbs", "schedule_reg",
                         ".pdf", ".hwp", ".xls", ".xlsx", ".ppt", ".pptx", ".zip"}

RECURSIVE FilterSitemap(_, _)
\* crawl_static_from_sitemap: the loop over raw_urls that builds static_urls
FilterSitemap(raw_urls, seen) ==
    IF raw_urls = <<>> THEN <<>>
    ELSE LET u == HttpsOf(Head(raw_urls))
             normalized == RStrip(u)
             rest == Tail(raw_urls)
         IN  IF ~UnderKo(u) THEN FilterSitemap(rest, seen)
             ELSE IF normalized \in EXCLUDED_URLS THEN FilterSitemap(rest, seen)
             ELSE IF Dynamic(u) THEN FilterSitemap(rest, seen)
             ELSE IF normalized \in seen THEN FilterSitemap(rest, seen)
             ELSE <<normalized>> \o FilterSitemap(rest, seen \cup {normalized})

\* crawl_static_from_sitemap: the request for the sitemap and the filter
crawl_static_from_sitemap_fetch(P, ok, raw_urls) ==
    LET P1 == Emit(On(P, "crawl_static_from_sitemap", SITEMAP_URL), Get_(SITEMAP_URL))
        todo == FilterSitemap(raw_urls, {})
    IN  IF ~ok
        THEN [Emit(P1, Caught("crawl_static_from_sitemap")) EXCEPT !.pc = "save"]
        ELSE IF todo = <<>> THEN [P1 EXCEPT !.pc = "save"]
        ELSE [P1 EXCEPT !.pc = "smitems", !.static_urls = todo]

\* crawl_static_from_sitemap: one pass of the loop over static_urls
crawl_static_from_sitemap_item(P, r) ==
    LET url == Head(P.static_urls)
        rest == Tail(P.static_urls)
        page_info == [k \in {"name", "page_type"} |->
                         IF k = "page_type" THEN "static_intro" ELSE "sitemap page"]
        P1 == Emit(Dept_crawl_url(On(P, "crawl_url", url), url, page_info, r), Sleep)
    IN  [P1 EXCEPT !.static_urls = rest,
                   !.pc = IF rest = <<>> THEN "save" ELSE "smitems"]

(***************************************************************************)
(* The processes.                                                          *)
(***************************************************************************)
\* the constructor of the crawler object, up to the first item of run()
Construct(P, k) ==
    LET L == IF k = "repeat" THEN Repeat_load_existing_index(P.indexFile)
             ELSE Dept_load_existing_index(P.indexFile)
        P0 == IF P.indexFile.st \in {"empty", "partial"}
              THEN Emit(P, Caught("_load_existing_index")) ELSE P
        P1 == [On(P0, "start", NoUrl) EXCEPT
                  !.kind = k,
                  !.existing_urls = L.existing_urls,
                  !.saved_pages = L.saved_pages,
                  !.index_meta = L.index_meta,
                  !.stats = ZeroStats]
    IN  IF k = "repeat" THEN EnterTarget(P1, 1)
        ELSE IF k = "department" THEN EnterStatic(P1, 1)
        ELSE [P1 EXCEPT !.pc = "sitemap"]

Env == <<dir, now, webSched, runs, call, ret>>

\* every requests.get of the step is counted; a behaviour sends MaxRequests at most
Spend ==
    /\ requests' = requests + Cardinality({i \in DOMAIN io' : io'[i][1] = "get"})
    /\ requests' <= MaxRequests

\* what the schedule listing can look like: how many pages have rows, and
\* which first row it shows
SchedStates ==
    {w \in [pages : 0..MaxSchedPages, first : 1..NumSigs] : w.pages = 0 => w.first = 1}

\* scheduler.py starts a program; the clock and the site are wherever they
\* have got to by then (only repeatCrawler reads them)
Start ==
    /\ pc = "idle"
    /\ runs < MaxRuns
    /\ \E k \in Kinds :
          /\ DirOf(k) = dir
          /\ Become(Construct(Self, k))
          /\ IF k = "repeat"
             THEN /\ now' \in IF runs = 0 THEN {now} ELSE now..MaxTime
                  /\ webSched' \in SchedStates
             ELSE UNCHANGED <<now, webSched>>
    /\ runs' = runs + 1
    /\ UNCHANGED <<dir, call, ret>>
    /\ Spend

SchedulePage ==
    /\ pc = "sched"
    /\ \E r \in Responses : Become(crawl_schedule_lists(Self, SCHEDULE_MAX_PAGES, r))
    /\ UNCHANGED Env
    /\ Spend

RestaurantPage ==
    /\ pc = "restaurant"
    /\ \E r \in Responses : Become(crawl_restaurant_lists(Self, r))
    /\ UNCHANGED Env
    /\ Spend

ListPage ==
    /\ pc = "list"
    /\ \E ok \in BOOLEAN, links \in Listings :
          /\ page_num < MaxListPages \/ links = <<>>
          /\ Become(crawl_list_page_fetch(Self, board_urls[idx], ok, links))
    /\ UNCHANGED Env
    /\ Spend

ListArticle ==
    /\ pc = "articles"
    /\ \E r \in Responses : Become(crawl_list_page_article(Self, board_urls[idx], r))
    /\ UNCHANGED Env
    /\ Spend

StaticPage ==
    /\ pc = "static"
    /\ \E r \in Responses : Become(run_static(Self, r))
    /\ UNCHANGED Env
    /\ Spend

DepartmentBoard ==
    /\ pc = "dboard"
    /\ \E ok \in BOOLEAN, links \in Listings, r \in Responses :
          Become(run_board(Self, ok, links, r))
    /\ UNCHANGED Env
    /\ Spend

SitemapFetch ==
    /\ pc = "sitemap"
    /\ \E ok \in BOOLEAN, raw_urls \in Sitemaps :
          Become(crawl_static_from_sitemap_fetch(Self, ok, raw_urls))
    /\ UNCHANGED Env
    /\ Spend

SitemapPage ==
    /\ pc = "smitems"
    /\ \E r \in Responses : Become(crawl_static_from_sitemap_item(Self, r))
    /\ UNCHANGED Env
    /\ Spend

SaveIndexOpen ==
    /\ pc = "save"
    /\ Become(save_index_open(Self))
    /\ UNCHANGED Env
    /\ Spend

SaveIndexWrite ==
    /\ pc = "writing"
    /\ \E all \in BOOLEAN :
          /\ all \/ indexFile = Truncated
          /\ Become(save_index_write(Self, all))
    /\ UNCHANGED Env
    /\ Spend

\* the process ends after the closing statistics
Exit ==
    /\ pc = "done"
    /\ Become(Gone(On(Self, "exit", NoUrl)))
    /\ UNCHANGED Env
    /\ Spend

\* The process is stopped (killed, power loss).  Only the directory outlives
\* it, and a stop in the middle of the loops leaves the directory as a stop
\* behind the loops does when the sources not yet visited all failed; so the
\* stops are taken from the end of the loops on: before save_index and in it.
Crash ==
    /\ pc \in {"save", "writing"}
    /\ Become(Gone(On(Self, "crash", NoUrl)))
    /\ UNCHANGED Env
    /\ Spend

Next ==
    \/ Start
    \/ SchedulePage
    \/ RestaurantPage
    \/ ListPage
    \/ ListArticle
    \/ StaticPage
    \/ DepartmentBoard
    \/ SitemapFetch
    \/ SitemapPage
    \/ SaveIndexOpen
    \/ SaveIndexWrite
    \/ Exit
    \/ Crash

Spec == Init /\ [][Next]_vars

(***************************************************************************)
(* The library functions on their own.  A behaviour of these specifications *)
(* is one call: Init draws the arguments, the action applies the function  *)
(* and keeps what it returned.  No process runs meanwhile.                 *)
(***************************************************************************)
Program == <<dir, indexFile, files, now, webSched, runs, kind, pc, idx, page_num,
             article_links, static_urls, existing_urls, saved_pages, index_meta,
             stats, ev, io, requests>>

NoProcess == Fresh /\ dir = "test_crawled"

Returned(v) == [st |-> "returned", value |-> v]

(***************************************************************************)
(* storage/json_storage.py: the normalizer, called as the crawlers call it *)
(***************************************************************************)
\* the article numbers of a board
ArticleNos == {ToString(100 + n) : n \in 1..MaxArticles}

\* paths on one site.  The tokens of a path are "/", ".do", "_" and names
\* that hold none of these, so two paths are the same text exactly when
\* they are the same tokens.
DocPaths ==
    { <<"/", "bus", "/", "notice", ".do">>,
      <<"/", "bus", "_", "notice", ".do">>,
      <<"/">> }

DocQueries ==
    {<<>>, << <<"article.offset", "10">> >>}
    \cup { << <<"mode", "view">>, <<"articleNo", n>> >> : n \in ArticleNos }
    \cup { << <<"mode", "view">>, <<"articleNo", n>>, <<"article.offset", "10">> >> :
             n \in ArticleNos }

DocUrls ==
    {Url("https", h, p, q) : h \in {BUS_HOST, ARCHI_HOST}, p \in DocPaths, q \in DocQueries}

\* what a fetch of the page gave the extractor, on two occasions
Contents ==
    { [title |-> "title", text |-> "text", images |-> <<>>],
      [title |-> "new title", text |-> "", images |-> <<"img">>] }

\* the ways a URL reaches save_page: the article loop of
\* SimpleTestCrawler.crawl_list_page, crawl_latest_from_department_board,
\* the static loop of departmentCrawler.run, crawl_static_from_sitemap
Routes == {"listing", "latest", "static", "sitemap"}

RouteMetadata(route, content) ==
    CASE route = "listing" ->
            Repeat_metadata([k \in {"source_type", "board_name"} |->
                                IF k = "source_type" THEN "board" ELSE "board"], content)
      [] route = "latest" ->
            Dept_metadata([k \in {"name", "page_type", "board_name"} |->
                                IF k = "page_type" THEN "board_notice" ELSE "board"], content)
      [] route = "static" ->
            Dept_metadata([k \in {"name"} |-> "intro"], content)
      [] route = "sitemap" ->
            Dept_metadata([k \in {"name", "page_type"} |->
                                IF k = "page_type" THEN "static_intro" ELSE "sitemap page"],
                          content)

NormalizeCalls ==
    [fn : {"_build_normalized_doc"}, url : DocUrls, route : Routes,
     content : Contents, crawled_at : {"t1", "t2"}]

\* save_page's call of _build_normalized_doc for the arguments c
Normalized(c) ==
    _build_normalized_doc(c.url, c.content.title, c.content.text,
                          RouteMetadata(c.route, c.content), c.crawled_at)

InitNormalize ==
    /\ NoProcess
    /\ call \in NormalizeCalls
    /\ ret = NoRet

Normalize ==
    /\ call.fn = "_build_normalized_doc"
    /\ ret = NoRet
    /\ ret' = Returned(Normalized(call))
    /\ UNCHANGED <<Program, call>>

SpecNormalize == InitNormalize /\ [][Normalize]_vars

(***************************************************************************)
(* storage/json_storage.py: the store under a sequence of saves.  The      *)
(* behaviour starts on an empty pages directory; every step is one call of *)
(* save_page, with the metadata of a route, for one of the URLs of a       *)
(* board: its listing and its articles.                                    *)
(***************************************************************************)
StoreUrls ==
    {u \in DocUrls : /\ u.host = BUS_HOST
                     /\ u.path = BUS_NOTICE_URL.path
                     /\ \A i \in DOMAIN u.query : u.query[i][1] # "article.offset"}

SaveCalls ==
    [fn : {"save_page"}, url : StoreUrls, route : {"listing", "latest"},
     content : Contents, crawled_at : {CRAWLED_AT}, n : 1..MaxSaves]

InitStore ==
    /\ NoProcess
    /\ call = [fn |-> "save_page", n |-> 0]
    /\ ret = NoRet

SavePage ==
    /\ call.fn = "save_page"
    /\ \E c \in SaveCalls :
          /\ c.n = call.n + 1
          /\ call' = c
          /\ files' = save_page(files, c.url, RouteMetadata(c.route, c.content),
                                c.content.text, c.content.title, c.crawled_at)
          /\ ret' = Returned(FileOf(c.url))
    /\ UNCHANGED <<dir, indexFile, now, webSched, runs, kind, pc, idx, page_num,
                   article_links, static_urls, existing_urls, saved_pages,
                   index_meta, stats, ev, io, requests>>

SpecStore == InitStore /\ [][SavePage]_vars

(***************************************************************************)
(* filters/date_filter.py                                                  *)
(*                                                                         *)
(* A date string is a sequence of tokens, each a kind and a number: a       *)
(* calendar date written YYYY-MM-DD (ten characters; the number is its     *)
(* distance in days from 2021-01-01), the letter T, a time of day HH:MM:SS *)
(* (its hour), the letter Z, an offset +HH:00 (its hours), and junk for    *)
(* any other text without a 'T'.  None is kept apart from the strings.     *)
(***************************************************************************)
Tok(k, n) == [k |-> k, n |-> n]

None == <<Tok("None", 0)>>

Days == (0 - MaxDays)..MaxDays
Hours == {0, 12}
\* "Z", "+00:00", "+09:00"
Zones == {Tok("Z", 0), Tok("offset", 0), Tok("offset", 9)}

DateStrings ==
    {None, <<>>, <<Tok("junk", 0)>>, <<Tok("junk", 0), Tok("T", 0), Tok("junk", 0)>>}
    \cup { <<Tok("date", d)>> : d \in Days }
    \cup { <<Tok("date", d), Tok("junk", 0)>> : d \in Days }
    \cup { <<Tok("date", d), Tok("T", 0), Tok("time", h)>> : d \in Days, h \in Hours }
    \cup { <<Tok("date", d), Tok("T", 0), Tok("time", h), z>> : d \in Days, h \in Hours, z \in Zones }

\* lastmod.replace('Z', '+00:00')
ReplaceZ(str) == [i \in DOMAIN str |-> IF str[i] = Tok("Z", 0) THEN Tok("offset", 0) ELSE str[i]]


\* a datetime: its wall-clock hour counted from 2021-01-01 00:00, whether it
\* has a tzinfo (is aware), and its utcoffset in hours
Datetime(hour, aware, utcoffset) ==
    [st |-> "ok", hour |-> hour, aware |-> aware, utcoffset |-> utcoffset]
ValueError == [st |-> "ValueError"]

\* datetime.fromisoformat(str)
fromisoformat(str) ==
    IF Len(str) \in {3, 4} /\ str[1].k = "date" /\ str[2] = Tok("T", 0) /\ str[3].k = "time"
       /\ (Len(str) = 4 => str[4].k = "offset")
    THEN Datetime(str[1].n * 24 + str[3].n, Len(str) = 4,
                  IF Len(str) = 4 THEN str[4].n ELSE 0)
    ELSE ValueError

\* datetime.strptime(lastmod[:10], "%Y-%m-%d"): the first ten characters
strptime10(str) ==
    IF str # <<>> /\ str[1].k = "date" THEN Datetime(str[1].n * 24, FALSE, 0)
    ELSE ValueError

\* DateFilter(cutoff_date="2021-01-01").cutoff
CUTOFF == Datetime(0, FALSE, 0)

\* date >= self.cutoff: a TypeError when one side has a tzinfo and the other
\* has none
GreaterEq(a, b) ==
    IF a.aware # b.aware THEN [st |-> "TypeError"]
    ELSE [st |-> "ok", value |-> a.hour - a.utcoffset >= b.hour - b.utcoffset]

\* DateFilter.is_recent(lastmod)
is_recent(lastmod) ==
    IF lastmod = None \/ lastmod = <<>> THEN TRUE
    ELSE LET date == IF Tok("T", 0) \in Range(lastmod) THEN fromisoformat(ReplaceZ(lastmod))
                     ELSE strptime10(lastmod)
         IN  IF date.st # "ok" THEN TRUE            \* except Exception
             ELSE LET cmp == GreaterEq(date, CUTOFF)
                  IN  IF cmp.st # "ok" THEN TRUE    \* except Exception
                      ELSE cmp.value

InitDate ==
    /\ NoProcess
    /\ call \in [fn : {"is_recent"}, lastmod : DateStrings]
    /\ ret = NoRet

IsRecent ==
    /\ call.fn = "is_recent"
    /\ ret = NoRet
    /\ ret' = Returned(is_recent(call.lastmod))
    /\ UNCHANGED <<Program, call>>

SpecDate == InitDate /\ [][IsRecent]_vars

(***************************************************************************)
(* filters/quality_filter.py                                               *)
(*                                                                         *)
(* A page is what BeautifulSoup makes of the HTML: whether it could be     *)
(* parsed at all, the text soup.get_text(separator=' ', strip=True) gives  *)
(* (a sequence of characters: a letter, a blank or a newline, without      *)
(* white space at either end), whether a skip pattern occurs in that text, *)
(* and the text of the title tag, if there is one.  Lengths are scaled:    *)
(* the filter is configured with min_text_length up to MaxChars - 1 and    *)
(* max_text_length MaxChars - 1 in place of 50/100 and 500000.             *)
(***************************************************************************)
RECURSIVE Texts(_)
\* the texts of n characters at most
Texts(n) ==
    IF n = 0 THEN {<<>>}
    ELSE Texts(n - 1) \cup
         {Append(t, c) : <<t, c>> \in {t \in Texts(n - 1) : Len(t) = n - 1} \X {"a", " ", "\n"}}

\* get_text(strip=True): no white space at the ends
Stripped(t) == t = <<>> \/ (t[1] = "a" /\ t[Len(t)] = "a")

NoTitle == [present |-> FALSE, len |-> 0]
Titles == {NoTitle} \cup [present : {TRUE}, len : 0..2]

QualityPages ==
    {pg \in [parsed : {TRUE}, text : {t \in Texts(MaxChars) : Stripped(t)},
             pattern : {"", "404 error"}, title : Titles] :
        pg.pattern # "" => pg.text # <<>>}
    \cup {[parsed |-> FALSE, text |-> <<>>, pattern |-> "", title |-> NoTitle]}

\* QualityFilter(min_text_length, max_text_length, min_word_count)
QualityFilters ==
    [min_text_length : 1..(MaxChars - 1), max_text_length : {MaxChars - 1},
     min_word_count : 1..2]

\* len(re.findall(r'\S+', text))
RECURSIVE WordCount(_)
WordCount(t) ==
    IF t = <<>> THEN 0
    ELSE IF Head(t) # "a" THEN WordCount(Tail(t))
    ELSE IF Len(t) > 1 /\ t[2] = "a" THEN WordCount(Tail(t))
    ELSE 1 + WordCount(Tail(t))

\* len(text.replace(' ', '').replace('\n', ''))
NonWhitespace(t) == Len(SelectSeq(t, LAMBDA c : c # " " /\ c # "\n"))

Verdict(ok, reason, n) == [ok |-> ok, reason |-> reason, n |-> n]

\* a filter that looks at the title before it looks for error patterns
is_high_quality_title_first(self, page) ==
    LET text == page.text
    IN  IF ~page.parsed THEN Verdict(FALSE, "Parse error", 0)
        ELSE IF Len(text) < self.min_text_length
        THEN Verdict(FALSE, "Too short", Len(text))
        ELSE IF Len(text) > self.max_text_length
        THEN Verdict(FALSE, "Too long", Len(text))
        ELSE IF WordCount(text) < self.min_word_count
        THEN Verdict(FALSE, "Too few words", WordCount(text))
        ELSE IF ~page.title.present \/ page.title.len < 2
        THEN Verdict(FALSE, "No valid title", 0)
        ELSE IF page.pattern # ""
        THEN Verdict(FALSE, "Error pattern detected", 0)
        ELSE IF 2 * NonWhitespace(text) < self.min_text_length
        THEN Verdict(FALSE, "Too much whitespace", 0)
        ELSE Verdict(TRUE, "OK", 0)

\* a filter that takes a text of exactly min_text_length characters as too short
is_high_quality_strict(self, page) ==
    LET text == page.text
    IN  IF ~page.parsed THEN Verdict(FALSE, "Parse error", 0)
        ELSE IF Len(text) <= self.min_text_length
        THEN Verdict(FALSE, "Too short", Len(text))
        ELSE IF Len(text) > self.max_text_length
        THEN Verdict(FALSE, "Too long", Len(text))
        ELSE IF WordCount(text) < self.min_word_count
        THEN Verdict(FALSE, "Too few words", WordCount(text))
        ELSE IF page.pattern # ""
        THEN Verdict(FALSE, "Error pattern detected", 0)
        ELSE IF ~page.title.present \/ page.title.len < 2
        THEN Verdict(FALSE, "No valid title", 0)
        ELSE IF 2 * NonWhitespace(text) < self.min_text_length
        THEN Verdict(FALSE, "Too much whitespace", 0)
        ELSE Verdict(TRUE, "OK", 0)

\* QualityFilter.is_high_quality(html, url); non_whitespace < min * 0.5 is
\* written 2 * non_whitespace < min
is_high_quality(self, page) ==
    LET text == page.text
    IN  IF ~page.parsed THEN Verdict(FALSE, "Parse error", 0)   \* except Exception
        ELSE IF Len(text) < self.min_text_length
        THEN Verdict(FALSE, "Too short", Len(text))
        ELSE IF Len(text) > self.max_text_length
        THEN Verdict(FALSE, "Too long", Len(text))
        ELSE IF WordCount(text) < self.min_word_count
        THEN Verdict(FALSE, "Too few words", WordCount(text))
        ELSE IF page.pattern # ""
        THEN Verdict(FALSE, "Error pattern detected", 0)
        ELSE IF ~page.title.present \/ page.title.len < 2
        THEN Verdict(FALSE, "No valid title", 0)
        ELSE IF 2 * NonWhitespace(text) < self.min_text_length
        THEN Verdict(FALSE, "Too much whitespace", 0)
        ELSE Verdict(TRUE, "OK", 0)

InitQuality ==
    /\ NoProcess
    /\ call \in [fn : {"is_high_quality"}, self : QualityFilters, page : QualityPages]
    /\ ret = NoRet

IsHighQuality ==
    /\ call.fn = "is_high_quality"
    /\ ret = NoRet
    /\ ret' = Returned(is_high_quality(call.self, call.page))
    /\ UNCHANGED <<Program, call>>

SpecQuality == InitQuality /\ [][IsHighQuality]_vars

(***************************************************************************)
(* filters/content_extractor.py: ContentExtractor._find_main_content       *)
(*                                                                         *)
(* A document is the list of its elements in document order (the order of  *)
(* find and find_all), the body tag aside, and whether it has a body tag.  *)
(* Of an element the tag name, the length of its get_text(strip=True) and  *)
(* one attribute are kept: id="jwxe_main_content", role="main", a class    *)
(* that matches one of CONTENT_PATTERNS, an id that matches one, or none.  *)
(* div stands for div and section, span for every other tag.               *)
(***************************************************************************)
\* penalty = 1000 if el.name == 'main' else 0
PENALTY == 1000

Elements ==
    [name : {"main", "article", "div", "span"},
     attr : {"", "id=jwxe_main_content", "role=main", "class~content", "id~content"},
     len : {600, 1500}]

RECURSIVE SeqsUpTo(_, _)
\* the lists over S of n elements at most
SeqsUpTo(S, n) ==
    IF n = 0 THEN {<<>>}
    ELSE SeqsUpTo(S, n - 1) \cup
         {Append(q, x) : <<q, x>> \in {q \in SeqsUpTo(S, n - 1) : Len(q) = n - 1} \X S}

Documents == [els : SeqsUpTo(Elements, MaxElements), body : BOOLEAN]

\* what _find_main_content returns: an element (its place), the body, or the soup
Element_(i) == [kind |-> "element", i |-> i]
Body == [kind |-> "body", i |-> 0]
Soup == [kind |-> "document", i |-> 0]

\* soup.find_all(...): the places of the elements that match (are in the
\* set matching), in document order
FindAll(els, matching) ==
    SelectSeq([i \in DOMAIN els |-> i], LAMBDA i : els[i] \in matching)

\* max(candidates, key=...): the first of the candidates with the largest
\* key; key[i] is the key of the candidate at place i
MaxBy(candidates, key) ==
    candidates[CHOOSE k \in DOMAIN candidates :
                  /\ \A j \in DOMAIN candidates : key[candidates[j]] <= key[candidates[k]]
                  /\ \A j \in 1..(k - 1) : key[candidates[j]] < key[candidates[k]]]

\* a selection that scores the candidates by their text alone
_find_main_content_no_penalty(soup) ==
    LET els == soup.els
        jwxe_candidates == FindAll(els, {e \in Range(els) : e.attr = "id=jwxe_main_content"})
        main == FindAll(els, {e \in Range(els) : e.name = "main"})
        article == FindAll(els, {e \in Range(els) : e.name = "article"})
        role_main == FindAll(els, {e \in Range(els) : e.attr = "role=main"})
        content_divs ==
            FindAll(els, {e \in Range(els) : e.name = "div" /\ e.attr = "class~content"})
            \o FindAll(els, {e \in Range(els) : e.name = "div" /\ e.attr = "id~content"})
    IN  IF jwxe_candidates # <<>>
        THEN Element_(MaxBy(jwxe_candidates, [i \in DOMAIN els |-> els[i].len]))
        ELSE IF main # <<>> THEN Element_(main[1])
        ELSE IF article # <<>> THEN Element_(article[1])
        ELSE IF role_main # <<>> THEN Element_(role_main[1])
        ELSE IF content_divs # <<>>
        THEN Element_(MaxBy(content_divs, [i \in DOMAIN els |-> els[i].len]))
        ELSE IF soup.body THEN Body ELSE Soup

\* ContentExtractor._find_main_content(soup)
_find_main_content(soup) ==
    LET els == soup.els
        jwxe_candidates == FindAll(els, {e \in Range(els) : e.attr = "id=jwxe_main_content"})
        score == [i \in DOMAIN els |->
                     els[i].len - (IF els[i].name = "main" THEN PENALTY ELSE 0)]
        main == FindAll(els, {e \in Range(els) : e.name = "main"})
        article == FindAll(els, {e \in Range(els) : e.name = "article"})
        role_main == FindAll(els, {e \in Range(els) : e.attr = "role=main"})
        content_divs ==
            FindAll(els, {e \in Range(els) : e.name = "div" /\ e.attr = "class~content"})
            \o FindAll(els, {e \in Range(els) : e.name = "div" /\ e.attr = "id~content"})
    IN  IF jwxe_candidates # <<>>
        THEN Element_(MaxBy(jwxe_candidates, score))
        ELSE IF main # <<>> THEN Element_(main[1])
        ELSE IF article # <<>> THEN Element_(article[1])
        ELSE IF role_main # <<>> THEN Element_(role_main[1])
        ELSE IF content_divs # <<>>
        THEN Element_(MaxBy(content_divs, [i \in DOMAIN els |-> els[i].len]))
        ELSE IF soup.body THEN Body ELSE Soup

InitContent ==
    /\ NoProcess
    /\ call \in [fn : {"_find_main_content"}, soup : Documents]
    /\ ret = NoRet

FindMainContent ==
    /\ call.fn = "_find_main_content"
    /\ ret = NoRet
    /\ ret' = Returned(_find_main_content(call.soup))
    /\ UNCHANGED <<Program, call>>

SpecContent == InitContent /\ [][FindMainContent]_vars

(***************************************************************************)
(* filters/content_extractor.py: extract_clean_text and                    *)
(* extract_with_metadata, on the tree BeautifulSoup(html, 'html.parser')   *)
(* hands them.  A node is a string, a comment or an element; the text of a *)
(* string is a list of characters, "\n" and " " the white space among      *)
(* them, any other token a run of characters that are not white space.     *)
(***************************************************************************)
Text_(t) == [name |-> "#text", attr |-> "", text |-> t, kids |-> <<>>]
Comment_(t) == [name |-> "#comment", attr |-> "", text |-> t, kids |-> <<>>]
El(name, attr, kids) == [name |-> name, attr |-> attr, text |-> <<>>, kids |-> kids]
BeautifulSoup(kids) == El("[document]", "", kids)

REMOVE_TAGS ==
    {"script", "style", "noscript", "iframe", "nav", "header", "footer", "aside",
     "form", "button", "input", "select", "textarea"}

\* the attributes of the model a hidden element carries: style="display:none"
\* and hidden
HIDDEN_ATTRS == {"style=display:none", "hidden"}

\* the attributes of the model whose class or id matches one of REMOVE_PATTERNS
REMOVE_PATTERNS == {"class=gnb", "class=sidebar"}

WhiteSpace == {" ", "\n"}

RECURSIVE Decompose(_, _, _)
\* for tag in soup.find_all(...): tag.decompose(), for the descendants of
\* node whose name is in names or whose attribute is in attrs
Decompose(node, names, attrs) ==
    LET keep == SelectSeq(node.kids, LAMBDA k : k.name \notin names /\ k.attr \notin attrs)
    IN  [node EXCEPT !.kids = [i \in DOMAIN keep |-> Decompose(keep[i], names, attrs)]]

\* ContentExtractor._remove_unnecessary_elements(soup)
_remove_unnecessary_elements(soup) ==
    Decompose(Decompose(Decompose(soup, REMOVE_TAGS, {}), {"#comment"}, {}), {}, HIDDEN_ATTRS)

\* ContentExtractor._remove_by_patterns(soup)
_remove_by_patterns(soup) == Decompose(soup, {}, REMOVE_PATTERNS)

RECURSIVE Flat(_)
\* the concatenation of a list of lists
Flat(ss) == IF ss = <<>> THEN <<>> ELSE Head(ss) \o Flat(Tail(ss))

RECURSIVE StripWs(_)
\* str.strip()
StripWs(t) ==
    IF t = <<>> THEN t
    ELSE IF Head(t) \in WhiteSpace THEN StripWs(Tail(t))
    ELSE IF t[Len(t)] \in WhiteSpace THEN StripWs(SubSeq(t, 1, Len(t) - 1))
    ELSE t

RECURSIVE Join(_, _)
\* sep.join(parts)
Join(parts, sep) ==
    IF parts = <<>> THEN <<>>
    ELSE IF Len(parts) = 1 THEN parts[1]
    ELSE parts[1] \o sep \o Join(Tail(parts), sep)

RECURSIVE Split(_, _)
\* text.split(sep), sep of one character or more
Split(t, sep) ==
    LET at == {i \in 1..(Len(t) - Len(sep) + 1) : SubSeq(t, i, i + Len(sep) - 1) = sep}
        i == CHOOSE i \in at : \A j \in at : i <= j
    IN  IF at = {} THEN <<t>>
        ELSE <<SubSeq(t, 1, i - 1)>> \o Split(SubSeq(t, i + Len(sep), Len(t)), sep)

RECURSIVE Strings(_)
\* the strings of a node in document order, each one stripped and the empty
\* ones left out: _all_strings(strip=True); a comment is no string of the text
Strings(node) ==
    IF node.name = "#text"
    THEN (IF StripWs(node.text) = <<>> THEN <<>> ELSE <<StripWs(node.text)>>)
    ELSE IF node.name = "#comment" THEN <<>>
    ELSE Flat([i \in DOMAIN node.kids |-> Strings(node.kids[i])])

\* node.get_text(separator=sep, strip=True)
get_text(node, sep) == Join(Strings(node), sep)

RECURSIVE Descendants(_)
\* the elements below a node in document order, each with the fields
\* _find_main_content looks at and the element itself
Descendants(node) ==
    Flat([i \in DOMAIN node.kids |->
            IF node.kids[i].name \in {"#text", "#comment"} THEN <<>>
            ELSE <<[name |-> node.kids[i].name, attr |-> node.kids[i].attr,
                    len |-> Len(get_text(node.kids[i], <<>>)), node |-> node.kids[i]]>>
                 \o Descendants(node.kids[i])])

\* ContentExtractor._find_main_content(soup), the element it returns
MainContent(soup) ==
    LET els == Descendants(soup)
        body == SelectSeq(els, LAMBDA e : e.name = "body")
        found == _find_main_content([els |-> els, body |-> body # <<>>])
    IN  IF found.kind = "element" THEN els[found.i].node
        ELSE IF found.kind = "body" THEN body[1].node
        ELSE soup

RECURSIVE CollapseBlankLines(_)
\* re.sub(r'\n\s*\n+', '\n\n', text): a line break, the white space after it
\* up to its last line break, become two line breaks
CollapseBlankLines(t) ==
    IF t = <<>> THEN t
    ELSE LET rest == Tail(t)
             run == {n \in 0..Len(rest) : \A j \in 1..n : rest[j] \in WhiteSpace}
             nl == {j \in run : j > 0 /\ rest[j] = "\n"}
             last == CHOOSE j \in nl : \A k \in nl : k <= j
         IN  IF Head(t) = "\n" /\ nl # {}
             THEN <<"\n", "\n">> \o CollapseBlankLines(SubSeq(rest, last + 1, Len(rest)))
             ELSE <<Head(t)>> \o CollapseBlankLines(rest)

RECURSIVE CollapseSpaces(_)
\* re.sub(r' +', ' ', text)
CollapseSpaces(t) ==
    IF Len(t) < 2 THEN t
    ELSE IF t[1] = " " /\ t[2] = " " THEN CollapseSpaces(Tail(t))
    ELSE <<Head(t)>> \o CollapseSpaces(Tail(t))

\* a cleaning that keeps the empty lines
_clean_text_keep_blank_lines(text) ==
    LET spaced == CollapseSpaces(CollapseBlankLines(text))
        split == Split(spaced, <<"\n">>)
        lines == [i \in DOMAIN split |-> StripWs(split[i])]
    IN  StripWs(Join(lines, <<"\n">>))

\* ContentExtractor._clean_text(text)
_clean_text(text) ==
    LET spaced == CollapseSpaces(CollapseBlankLines(text))
        split == Split(spaced, <<"\n">>)
        lines == [i \in DOMAIN split |-> StripWs(split[i])]
    IN  StripWs(Join(SelectSeq(lines, LAMBDA line : line # <<>>), <<"\n">>))

\* an extraction that selects the main region before it removes anything
extract_clean_text_select_first(soup) ==
    _clean_text(get_text(_remove_by_patterns(_remove_unnecessary_elements(MainContent(soup))),
                         <<"\n">>))

\* ContentExtractor.extract_clean_text(html), keep_links and keep_images as
\* the crawlers construct it; an img element has no string
extract_clean_text(soup) ==
    _clean_text(get_text(_remove_by_patterns(MainContent(_remove_unnecessary_elements(soup))),
                         <<"\n">>))

\* ContentExtractor.extract_with_metadata(html): the text, the title and the
\* counts of the result
extract_with_metadata(soup) ==
    LET els == Descendants(soup)
        title == SelectSeq(els, LAMBDA e : e.name = "title")
        h1 == SelectSeq(els, LAMBDA e : e.name = "h1")
        clean_text == extract_clean_text(soup)
        blocks == Split(clean_text, <<"\n", "\n">>)
    IN  [text |-> clean_text,
         title |-> IF title # <<>> THEN get_text(title[1].node, <<>>)
                   ELSE IF h1 # <<>> THEN get_text(h1[1].node, <<>>)
                   ELSE <<>>,
         paragraphs |-> Len(SelectSeq(blocks, LAMBDA p : StripWs(p) # <<>>)),
         char_count |-> Len(clean_text)]

\* the elements of the pages handed to the extractor: chrome of each sort
\* (a removed tag, a comment, the two ways of hiding), a main region and a
\* plain block
NodeKinds ==
    {[name |-> "nav", attr |-> ""], [name |-> "#comment", attr |-> ""],
     [name |-> "div", attr |-> "hidden"], [name |-> "div", attr |-> "style=display:none"],
     [name |-> "main", attr |-> ""], [name |-> "div", attr |-> ""]}
NoKind == [name |-> "", attr |-> ""]

\* a node of a kind with one word of its own before its children
Node(of, word, kids) ==
    IF of.name = "#comment" THEN Comment_(<<word>>)
    ELSE El(of.name, of.attr, <<Text_(<<word>>)>> \o kids)

\* the page of a list of shapes: one element for each shape, another inside
\* it when the shape has one, each with a word no other element has
PageOf(body, shapes) ==
    LET outer == <<"o1", "o2", "o3", "o4">>
        inner == <<"i1", "i2", "i3", "i4">>
        top == [i \in DOMAIN shapes |->
                   Node(shapes[i].outer, outer[i],
                        IF shapes[i].inner = NoKind THEN <<>>
                        ELSE <<Node(shapes[i].inner, inner[i], <<>>)>>)]
    IN  BeautifulSoup(IF body THEN <<El("body", "", top)>> ELSE top)

\* the sample page: a navigation bar, a main region of one article with a
\* heading and two paragraphs, a footer, no title element
SAMPLE ==
    BeautifulSoup(<<El("body", "", <<
        El("nav", "class=gnb", <<Text_(<<"menu">>)>>),
        El("main", "", <<El("article", "", <<
            El("h1", "", <<Text_(<<"T">>)>>),
            El("p", "", <<Text_(<<"para", " ", "one">>)>>),
            El("p", "", <<Text_(<<"para", " ", "two">>)>>)>>)>>),
        El("footer", "", <<Text_(<<"foot">>)>>)>>)>>)

\* the pages handed to the extractor: pages of n elements at most, single
\* strings of m characters at most, the sample page
Soups(n, m) ==
    {PageOf(d.body, d.shapes) :
        d \in [body : BOOLEAN,
               shapes : SeqsUpTo([outer : NodeKinds,
                                  inner : {k \in NodeKinds : k.name # "div"} \cup {NoKind}],
                                 n)]}
    \cup {BeautifulSoup(<<Text_(t)>>) : t \in Texts(m)}
    \cup {SAMPLE}

InitExtract ==
    /\ NoProcess
    /\ call \in [fn : {"extract_clean_text", "extract_with_metadata"},
                  soup : Soups(MaxElements, MaxChars)]
    /\ ret = NoRet

ExtractCleanText ==
    /\ call.fn = "extract_clean_text"
    /\ ret = NoRet
    /\ ret' = Returned([text |-> extract_clean_text(call.soup)])
    /\ UNCHANGED <<Program, call>>

ExtractWithMetadata ==
    /\ call.fn = "extract_with_metadata"
    /\ ret = NoRet
    /\ ret' = Returned(extract_with_metadata(call.soup))
    /\ UNCHANGED <<Program, call>>

SpecExtract == InitExtract /\ [][ExtractCleanText \/ ExtractWithMetadata]_vars

(***************************************************************************)
(* repeatCrawler.py: crawl_schedule_lists(url, max_pages) and              *)
(* crawl_list_page(url, max_pages, ...) called with a page limit, by a     *)
(* crawler that has loaded an index of earlier runs.                       *)
(***************************************************************************)
\* the URLs an earlier run can have saved: listing pages of the schedule,
\* articles of the board
KnownUrls ==
    <<PageUrl(SCHEDULE_URL, 0), PageUrl(SCHEDULE_URL, 1)>>
    \o [i \in 1..MaxLinks |-> ArticleUrl(BUS_NOTICE_URL, <<<<"mode", "view">>, <<"articleNo", ToString(100 + i)>>>>)]

\* the board crawl_list_page is called for, with max_pages as given
BoardWith(max_pages) == [board_urls[1] EXCEPT !.max_pages = max_pages]

InitPages ==
    /\ dir = DirOf("repeat")
    /\ indexFile = NoIndex
    /\ files = EmptyDict
    /\ now = 0
    /\ webSched \in SchedStates
    /\ runs = 1
    /\ kind = "repeat"
    /\ call \in [fn : {"crawl_schedule_lists", "crawl_list_page"}, max_pages : 1..MaxPagesArg]
    /\ ret = NoRet
    /\ pc = IF call.fn = "crawl_schedule_lists" THEN "sched" ELSE "list"
    /\ idx = 1
    /\ page_num = 0
    /\ article_links = <<>>
    /\ static_urls = <<>>
    /\ \E known \in SUBSET Range(KnownUrls) :
          /\ existing_urls = known
          /\ saved_pages = LET urls == SelectSeq(KnownUrls, LAMBDA u : u \in known)
                           IN  [i \in DOMAIN urls |-> Summary(urls[i])]
    /\ index_meta = EmptyDict
    /\ stats = ZeroStats
    /\ ev = [op |-> "none", url |-> NoUrl]
    /\ io = <<>>
    /\ requests = 0

SchedulePageLimited ==
    /\ call.fn = "crawl_schedule_lists"
    /\ pc = "sched"
    /\ \E r \in Responses : Become(crawl_schedule_lists(Self, call.max_pages, r))
    /\ UNCHANGED Env
    /\ Spend

ListPageLimited ==
    /\ call.fn = "crawl_list_page"
    /\ pc = "list"
    /\ \E ok \in BOOLEAN, links \in Listings :
          /\ page_num < MaxListPages \/ links = <<>>
          /\ Become(crawl_list_page_fetch(Self, BoardWith(call.max_pages), ok, links))
    /\ UNCHANGED Env
    /\ Spend

ListArticleLimited ==
    /\ call.fn = "crawl_list_page"
    /\ pc = "articles"
    /\ \E r \in Responses :
          Become(crawl_list_page_article(Self, BoardWith(call.max_pages), r))
    /\ UNCHANGED Env
    /\ Spend

SpecPages ==
    InitPages /\ [][SchedulePageLimited \/ ListPageLimited \/ ListArticleLimited]_vars

(***************************************************************************)
(* sendToServer.py and test_crawl_demo.py.  A title is the list of its     *)
(* words; a search word is in the title when it is one of them.  The       *)
(* Korean words are written in Latin letters.                              *)
(***************************************************************************)
\* KEYWORD_MAP.items(), in the order the dict is written
KEYWORD_MAP ==
    << <<"janghak", "SCHOLARSHIP">>, <<"haksa", "COURSE">>, <<"sugang", "COURSE">>,
       <<"saenghwalgwan", "DORM">>, <<"gisuksa", "DORM">>, <<"haengsa", "EVENT">>,
       <<"teukgang", "EVENT">>, <<"chwieop", "EMPLOYMENT">>, <<"intern", "EMPLOYMENT">>,
       <<"chaeyong", "EMPLOYMENT">> >>

\* send_to_spring(url, keyword, title): one POST, True when the server took
\* it, False when the request raised
send_to_spring(url, keyword, title, server_up) == server_up

\* check_and_notify(url, title): (matched, keyword), and the POSTs it sent
check_and_notify(url, title, server_up) ==
    LET hits == SelectSeq(KEYWORD_MAP, LAMBDA item : item[1] \in Range(title))
    IN  IF hits # <<>>
        THEN [matched |-> send_to_spring(url, hits[1][2], title, server_up),
              keyword |-> hits[1][2], posts |-> 1]
        ELSE [matched |-> FALSE, keyword |-> "None", posts |-> 0]

DEMO_URL == Url("https", WWW_HOST, <<"/", "ko", "/", "index", ".do">>, <<<<"sso", "ok">>>>)

\* FAKE_NEW_POSTS: every post has the same url
FAKE_NEW_POSTS ==
    << [url |-> DEMO_URL, title |-> <<"janghak", "gukga", "janghak", "geum">>],
       [url |-> DEMO_URL, title |-> <<"haksa", "sugang", "sincheong">>],
       [url |-> DEMO_URL, title |-> <<"saenghwalgwan", "ipsa">>],
       [url |-> DEMO_URL, title |-> <<"haengsa", "teukgang">>],
       [url |-> DEMO_URL, title |-> <<"chwieop", "chaeyong", "seolmyeonghoe">>],
       [url |-> DEMO_URL, title |-> <<"ilban", "doseogwan">>] >>

RECURSIVE simulate_crawling(_, _, _, _)
\* simulate_crawling(): the loop over the posts, from the stats and the
\* existing_urls reached so far
simulate_crawling(posts, demo_urls, demo_stats, server_up) ==
    IF posts = <<>> THEN demo_stats
    ELSE LET post == Head(posts)
             checked == [demo_stats EXCEPT !.checked = @ + 1]
             found == check_and_notify(post.url, post.title, server_up)
             new == [checked EXCEPT
                        !.new_found = @ + 1,
                        !.notifications_sent = IF found.matched THEN @ + 1 ELSE @,
                        !.no_keyword_match = IF found.matched THEN @ ELSE @ + 1]
         IN  IF post.url \notin demo_urls
             THEN simulate_crawling(Tail(posts), demo_urls \cup {post.url}, new, server_up)
             ELSE simulate_crawling(Tail(posts), demo_urls, checked, server_up)

\* the words of the titles handed to check_and_notify: search words and one
\* word that is none
TitleWords == {"janghak", "haksa", "sugang", "chaeyong", "ilban"}

InitNotify ==
    /\ NoProcess
    /\ \/ call \in [fn : {"check_and_notify"}, title : SeqsUpTo(TitleWords, MaxTitle),
                    server_up : BOOLEAN]
       \/ call \in [fn : {"simulate_crawling"}, title : {<<>>}, server_up : BOOLEAN]
    /\ ret = NoRet

CheckAndNotify ==
    /\ call.fn = "check_and_notify"
    /\ ret = NoRet
    /\ ret' = Returned(check_and_notify(DEMO_URL, call.title, call.server_up))
    /\ UNCHANGED <<Program, call>>

SimulateCrawling ==
    /\ call.fn = "simulate_crawling"
    /\ ret = NoRet
    /\ ret' = Returned(simulate_crawling(
                  FAKE_NEW_POSTS, {},
                  [checked |-> 0, new_found |-> 0, notifications_sent |-> 0,
                   no_keyword_match |-> 0],
                  call.server_up))
    /\ UNCHANGED <<Program, call>>

SpecNotify == InitNotify /\ [][CheckAndNotify \/ SimulateCrawling]_vars

(***************************************************************************)
(* Properties.                                                             *)
(***************************************************************************)
Gets(events) == {i \in DOMAIN events : events[i][1] = "get"}
Saves(events) == {i \in DOMAIN events : events[i][1] = "save"}
Counted(s) == s.failed + s.filtered + s.skipped
UrlsOf(pages) == {pages[i].url : i \in DOMAIN pages}

\* the steps that look one URL up in existing_urls before anything else
DedupOps ==
    {"crawl_url", "crawl_list_page_article", "crawl_schedule_lists",
     "crawl_latest_from_department_board"}

\* C1: whenever crawl_url of departmentCrawler, the article loop of
\* crawl_list_page, crawl_schedule_lists or the department board flow
\* considers a URL that is in existing_urls at that moment, the step issues no
\* request, saves nothing (no page file, no summary) and adds exactly one to
\* skipped.
C1_KnownUrlSkipped ==
    [][ (ev'.op \in DedupOps /\ ev'.url \in existing_urls) =>
            /\ Get_(ev'.url) \notin Range(io')
            /\ Saves(io') = {}
            /\ files' = files
            /\ saved_pages' = saved_pages
            /\ stats'.skipped = stats.skipped + 1 ]_vars

\* an article of a board listing has just been skipped as known
C1_Witness ==
    /\ ev.op = "crawl_list_page_article"
    /\ ev.url \in existing_urls
    /\ stats.skipped > 0
    /\ Get_(ev.url) \notin Range(io)

\* the index file on disk carries the signature the schedule listing shows now
StoredSignatureMatches ==
    /\ indexFile.st = "ok"
    /\ KEY_FIRST_ITEM \in DOMAIN indexFile.meta
    /\ webSched.pages > 0
    /\ indexFile.meta[KEY_FIRST_ITEM] = webSched.first

\* C2 as the spec states it: in a run that starts from an index whose stored
\* first-row signature equals the signature of the schedule listing as served,
\* crawl_schedule_lists saves no page of the listing and requests no listing
\* page beyond the first.
C2_UnchangedScheduleSkipped ==
    [][ (ev'.op = "crawl_schedule_lists" /\ StoredSignatureMatches) =>
            /\ saved_pages' = saved_pages
            /\ files' = files
            /\ \A i \in Gets(io') : io'[i] = Get_(SCHEDULE_URL) ]_vars

\* C3 as the spec states it: for a restaurant page the index on disk holds,
\* with a stored last-crawl timestamp, the run requests the page exactly when
\* the stored calendar date is before today's.
C3_RestaurantDailyGate ==
    [][ ( /\ ev'.op = "crawl_restaurant_lists"
          /\ indexFile.st = "ok"
          /\ ev'.url \in UrlsOf(indexFile.pages)
          /\ RestaurantKey(ev'.url) \in DOMAIN indexFile.meta ) =>
            ( Get_(ev'.url) \in Range(io')
              <=> DateOf(indexFile.meta[RestaurantKey(ev'.url)]) < DateOf(now) ) ]_vars

\* C4 as the spec states it: the index_meta a repeatCrawler process starts
\* with is the meta mapping of the index file it finds.
C4_MetaLoadedAtStart ==
    [][ (ev'.op = "start" /\ kind' = "repeat" /\ indexFile.st = "ok") =>
            index_meta' = indexFile.meta ]_vars

\* C5: after a process has loaded a complete index, every URL of the index is
\* in existing_urls and every summary of it in saved_pages; summaries stay in
\* saved_pages for the rest of the run, and the index the run writes is
\* saved_pages.
C5_IndexRoundTrip ==
    [][ /\ (ev'.op = "start" /\ indexFile.st = "ok") =>
               /\ UrlsOf(indexFile.pages) \subseteq existing_urls'
               /\ Range(indexFile.pages) \subseteq Range(saved_pages')
        /\ (kind # "none" /\ kind' # "none") =>
               /\ Len(saved_pages') >= Len(saved_pages)
               /\ SubSeq(saved_pages', 1, Len(saved_pages)) = saved_pages
        /\ (indexFile' # indexFile /\ indexFile'.st = "ok") =>
               indexFile'.pages = saved_pages ]_vars

\* a second process has started from an index that holds pages
C5_Witness ==
    /\ ev.op = "start"
    /\ indexFile.st = "ok"
    /\ indexFile.pages # <<>>
    /\ UrlsOf(indexFile.pages) \subseteq existing_urls
    /\ saved_pages = indexFile.pages

\* C6 as the spec states it: once a process has stopped, however it stopped,
\* the index file is absent (never written) or a complete index.
C6_IndexNeverBroken ==
    pc = "idle" => indexFile.st \in {"absent", "ok"}

\* C7: the index file changes only in save_index; once save_index has begun
\* no item is processed any more in that run; and the file is opened for
\* writing once.
C7_IndexWrittenOnceAtEnd ==
    [][ /\ indexFile' # indexFile => ev'.op = "save_index"
        /\ ev.op = "save_index" => ev'.op \in {"save_index", "exit", "crash"}
        /\ (ev.op = "save_index" /\ ev'.op = "save_index") =>
               pc = "writing" ]_vars

\* a run that saved a page has written its index
C7_Witness ==
    /\ ev.op = "save_index"
    /\ pc = "done"
    /\ stats.success > 0
    /\ indexFile.st = "ok"
    /\ indexFile.pages = saved_pages

\* the except clauses of the item, listing page, schedule, restaurant and
\* department board flows
RunHandlers ==
    {"crawl_url:RequestException", "crawl_url:Exception", "crawl_list_page",
     "crawl_schedule_lists", "crawl_restaurant_lists",
     "crawl_latest_from_department_board"}

\* C8 as the spec states it: a step in which one of these except clauses ran
\* leaves failed + filtered + skipped larger than it found it.
C8_CaughtErrorCounted ==
    [][ (\E h \in RunHandlers : Caught(h) \in Range(io')) =>
            Counted(stats') > Counted(stats) ]_vars

\* C9: when the request of crawl_url fails, failed grows by exactly one, no
\* file and no summary is written, the URL is not in existing_urls afterwards,
\* the URL was requested exactly once, and the run goes on to its next item.
C9_FetchFailure ==
    [][ Caught("crawl_url:RequestException") \in Range(io') =>
            /\ stats'.failed = stats.failed + 1
            /\ files' = files
            /\ saved_pages' = saved_pages
            /\ ev'.url \notin existing_urls'
            /\ Cardinality({i \in DOMAIN io' : io'[i] = Get_(ev'.url)}) = 1
            /\ pc' \notin {"idle", "done"}
            /\ <<pc', idx', page_num', article_links', static_urls'>>
                   # <<pc, idx, page_num, article_links, static_urls>> ]_vars

\* the request for an item has just failed
C9_Witness ==
    /\ Caught("crawl_url:RequestException") \in Range(io)
    /\ stats.failed > 0
    /\ ev.url \notin existing_urls
    /\ FileOf(ev.url) \notin DOMAIN files
    /\ pc \notin {"idle", "done"}

\* 'mode=view' in href or 'articleNo' in href: the URL of a board article
IsArticleUrl(url) ==
    \E i \in DOMAIN url.query : url.query[i][1] \in {"mode", "articleNo"}

\* C10 as the spec states it: every saved document of a board article has
\* source_type "board", and doc_id {site}_notice_{N} when the URL carries
\* articleNo=N, {site}_notice_{slug} when it carries none.
C10_BoardArticleIdentity ==
    \A f \in DOMAIN files :
        LET doc == files[f]
            site == _guess_site_from_url(doc.url)
            N == ArticleNo(doc.url.query)
        IN  IsArticleUrl(doc.url) =>
                /\ doc.source_type = "board"
                /\ doc.doc_id = IF N # "" THEN site \o <<"_notice_", N>>
                                ELSE site \o <<"_notice_">> \o _slug_from_path(doc.url.path)


\* the document a call is about: an article is known by its site and its
\* article number, whatever else its URL carries
Site(c) == _guess_site_from_url(c.url)
IsArticle(c) == ArticleNo(c.url.query) # ""
SameArticle(c, d) ==
    /\ IsArticle(c) /\ IsArticle(d)
    /\ Site(c) = Site(d)
    /\ ArticleNo(c.url.query) = ArticleNo(d.url.query)

\* C11: one board article (same site, same article number) gets the same
\* doc_id on every route (listing crawl of repeatCrawler, latest-article flow
\* of departmentCrawler, static or sitemap page crawl) and whatever other
\* query parameters or path its URL carries.
C11_SameDocIdOnEveryRoute ==
    ret.st = "returned" /\ call.fn = "_build_normalized_doc" =>
        \A d \in NormalizeCalls :
            SameArticle(call, d) => Normalized(d).doc_id = ret.value.doc_id


\* two calls about different documents of one site: articles with
\* different article numbers, or pages (no article number) at different paths
DifferentDocuments(c, d) ==
    /\ Site(c) = Site(d)
    /\ \/ /\ IsArticle(c) /\ IsArticle(d)
          /\ ArticleNo(c.url.query) # ArticleNo(d.url.query)
       \/ /\ ~IsArticle(c) /\ ~IsArticle(d)
          /\ c.url.path # d.url.path

\* C12: doc_id is unique per logical document: board articles with different
\* article numbers, and pages with different URL paths on the same site,
\* never get the same doc_id, on whatever routes they are saved.
C12_DocIdUnique ==
    ret.st = "returned" /\ call.fn = "_build_normalized_doc" =>
        \A d \in NormalizeCalls :
            DifferentDocuments(call, d) => Normalized(d).doc_id # ret.value.doc_id


\* what the doc_id of a call may depend on: the site, the source type, and
\* the article number when the board branch finds one, else the path
IdentityKey(c) ==
    LET source_type == Normalized(c).source_type
    IN  <<Site(c), source_type,
          IF source_type = "board" /\ IsArticle(c)
          THEN <<"articleNo", ArticleNo(c.url.query)>>
          ELSE <<"path", c.url.path>> >>

\* C13: the doc_id depends only on (site, source type, article number if
\* present, else URL path): the same (url, context) normalized again, at
\* another time or with other text, title or images, gets the same doc_id,
\* and for source type page two URLs that differ only in their query get
\* the same doc_id.
C13_DocIdDependsOnIdentity ==
    ret.st = "returned" /\ call.fn = "_build_normalized_doc" =>
        \A d \in NormalizeCalls :
            /\ (d.url = call.url /\ d.route = call.route)
                  => Normalized(d).doc_id = ret.value.doc_id
            /\ (IdentityKey(d) = IdentityKey(call))
                  => Normalized(d).doc_id = ret.value.doc_id
            /\ (    ret.value.source_type = "page"
                 /\ Normalized(d).source_type = "page"
                 /\ [d.url EXCEPT !.query = <<>>] = [call.url EXCEPT !.query = <<>>])
                  => Normalized(d).doc_id = ret.value.doc_id

\* a page was normalized, and the same page asked for with another query,
\* at another time and with other content has the same doc_id
C13_Witness ==
    /\ ret.st = "returned" /\ call.fn = "_build_normalized_doc"
    /\ ret.value.source_type = "page"
    /\ IsArticle(call)
    /\ \E d \in NormalizeCalls :
          /\ [d.url EXCEPT !.query = <<>>] = [call.url EXCEPT !.query = <<>>]
          /\ IsArticle(d) /\ ArticleNo(d.url.query) # ArticleNo(call.url.query)
          /\ d.route = call.route
          /\ d.content # call.content /\ d.crawled_at # call.crawled_at
          /\ Normalized(d).doc_id = ret.value.doc_id


\* the accepted formats of a timestamp: a bare date (the first ten
\* characters are read, so a date followed by other text counts as one), or
\* a full ISO timestamp, with or without a zone, 'Z' included
IsoTimestamp(str) ==
    /\ Len(str) \in {3, 4} /\ str[1].k = "date" /\ str[2] = Tok("T", 0) /\ str[3].k = "time"
    /\ Len(str) = 4 => str[4] \in Zones
BareDate(str) == str # <<>> /\ str[1].k = "date" /\ Tok("T", 0) \notin Range(str)
Parseable(str) == str # None /\ (BareDate(str) \/ IsoTimestamp(str))

\* the instant a parseable timestamp names, in hours from the cutoff
\* 2021-01-01 00:00; a timestamp with a zone is taken to UTC
Instant(str) ==
    IF BareDate(str) THEN str[1].n * 24
    ELSE str[1].n * 24 + str[3].n - (IF Len(str) = 4 THEN str[4].n ELSE 0)

\* C14: is_recent(ts) is false exactly when ts is present, parseable in an
\* accepted format (bare date, or full ISO timestamp, one with a 'Z' suffix
\* included) and its instant is strictly before the cutoff; in every other
\* case (missing, empty, unparseable, at or after the cutoff) it is true.
C14_RejectsExactlyOldTimestamps ==
    ret.st = "returned" /\ call.fn = "is_recent" =>
        (ret.value = FALSE <=>
            Parseable(call.lastmod) /\ Instant(call.lastmod) < 0)


\* the five checks of the quality classifier, in the order they are
\* numbered: TRUE when the check fails for page pg under filter q
CheckFails(k, q, pg) ==
    CASE k = 1 -> Len(pg.text) < q.min_text_length \/ Len(pg.text) > q.max_text_length
      [] k = 2 -> WordCount(pg.text) < q.min_word_count
      [] k = 3 -> pg.pattern # ""
      [] k = 4 -> ~pg.title.present \/ pg.title.len < 2
      [] k = 5 -> 2 * NonWhitespace(pg.text) < q.min_text_length

\* the reasons that name check k
ReasonsOf(k) ==
    CASE k = 1 -> {"Too short", "Too long"}
      [] k = 2 -> {"Too few words"}
      [] k = 3 -> {"Error pattern detected"}
      [] k = 4 -> {"No valid title"}
      [] k = 5 -> {"Too much whitespace"}

\* C15: the quality checks are evaluated in the order (1) length below the
\* minimum or above the maximum, (2) word count, (3) error signature,
\* (4) title, (5) non-whitespace below half the minimum, and the verdict
\* carries the reason of the first check that fails; the verdict is
\* (accepted, "OK") exactly when no check fails; and a verdict with a
\* non-empty reason is returned in every case, an unparseable page included.
C15_FirstFailingCheckDecides ==
    ret.st = "returned" /\ call.fn = "is_high_quality" =>
        LET failing == {k \in 1..5 : CheckFails(k, call.self, call.page)}
            v == ret.value
        IN  /\ v.reason # ""
            /\ v.ok \in BOOLEAN
            /\ call.page.parsed =>
                  /\ (v.ok /\ v.reason = "OK") <=> (failing = {})
                  /\ v.ok <=> (failing = {})
                  /\ \A k \in failing :
                        (\A j \in failing : k <= j) => v.reason \in ReasonsOf(k)
            /\ ~call.page.parsed => ~v.ok

\* a page that fails the word count, the error signature and the title
\* check was classified
C15_Witness ==
    /\ ret.st = "returned" /\ call.fn = "is_high_quality"
    /\ call.page.parsed
    /\ {k \in 1..5 : CheckFails(k, call.self, call.page)} = {2, 3, 4}
    /\ ret.value.reason = "Too few words"

\* C16: for every configured min_text_length m, a page whose stripped text
\* has m - 1 characters is rejected with a length-based reason, and a page
\* whose stripped text has exactly m characters and passes the word-count,
\* error-signature, title and whitespace checks is accepted.
C16_LengthBoundary ==
    ret.st = "returned" /\ call.fn = "is_high_quality" /\ call.page.parsed =>
        LET m == call.self.min_text_length
            pg == call.page
        IN  /\ Len(pg.text) = m - 1 =>
                  ~ret.value.ok /\ ret.value.reason = "Too short"
            /\ (Len(pg.text) = m /\ \A k \in 2..5 : ~CheckFails(k, call.self, pg)) =>
                  ret.value.ok

\* a page of exactly min_text_length characters, with a blank in it, was accepted
C16_Witness ==
    /\ ret.st = "returned" /\ call.fn = "is_high_quality"
    /\ call.page.parsed
    /\ Len(call.page.text) = call.self.min_text_length
    /\ " " \in Range(call.page.text)
    /\ ret.value.ok


\* the places of an event kind among the events of a step
At(events, what) == {i \in DOMAIN events : events[i][1] = what}

\* C17: for every page a crawler handles the stages run in the order fetch,
\* quality classification, content extraction, recency gate, normalization,
\* persistence: the recency gate is consulted only after the quality
\* verdict, no page is counted as date-filtered before it was
\* quality-classified, and nothing is persisted for a rejected page.
C17_QualityBeforeRecency ==
    [][ /\ \A i \in At(io', "date_filter") :
              \E j \in At(io', "quality") : j < i
        /\ \A i \in At(io', "quality") :
              \E j \in At(io', "get") : j < i
        /\ \A i \in At(io', "save") :
              \E j \in At(io', "quality") : j < i
        /\ (kind' = kind /\ stats'.filtered_date > stats.filtered_date) =>
              At(io', "quality") # {}
        /\ (kind' = kind /\ stats'.filtered > stats.filtered) =>
              (At(io', "save") = {} /\ files' = files)
      ]_vars


\* C18: between any two consecutive outbound requests of a crawler run a
\* sleep occurs: among the events of a step, and of two steps of one
\* process that follow each other, no two requests are back to back.
C18_SleepBetweenRequests ==
    [][ LET events == IF kind' = kind THEN io \o io' ELSE io'
        IN  \A i, j \in At(events, "get") :
                i < j => \E k \in At(events, "sleep") : i < k /\ k < j
      ]_vars


\* C19: save_page stores a document at a location that is a function of
\* the source URL only, whatever the content, the metadata and the doc_id:
\* saving a URL again writes over its one file (one file per URL at most,
\* the last write wins), and a save leaves the files of other URLs as they
\* were.
C19_OneFilePerUrl ==
    [][ call'.fn = "save_page" /\ call'.n > call.n =>
          LET f == FileOf(call'.url)
              doc == _build_normalized_doc(call'.url, call'.content.title,
                         call'.content.text,
                         RouteMetadata(call'.route, call'.content), call'.crawled_at)
          IN  /\ ret'.value = f
              /\ DOMAIN files' = DOMAIN files \cup {f}
              /\ files'[f] = doc
              /\ \A g \in DOMAIN files \ {f} : files'[g] = files[g]
              /\ \A g \in DOMAIN files' : g = FileOf(files'[g].url)
              /\ \A g, h \in DOMAIN files' : files'[g].url = files'[h].url => g = h
      ]_vars

\* a URL was saved again, with other content and on another route, next to
\* the file of another URL that has the same doc_id
C19_Witness ==
    /\ call.fn = "save_page" /\ call.n = 3
    /\ Cardinality(DOMAIN files) = 2
    /\ call.route = "listing" /\ call.content.text = ""
    /\ \E g \in DOMAIN files :
          /\ g # FileOf(call.url)
          /\ files[g].doc_id = files[FileOf(call.url)].doc_id
          /\ files[g].main_text # ""


\* the first of a set of places
First(S) == CHOOSE i \in S : \A j \in S : i <= j

\* C20: the main-content region is an ordered first-match-wins choice: if
\* any element has the id jwxe_main_content, a candidate with the largest
\* (text length, minus 1000 for a main tag); else the first main tag; else
\* the first article tag; else the first element with role=main; else,
\* among the div/section elements whose class or id matches a content
\* pattern, one with the most text; else the body, or the whole document
\* when there is no body.
C20_FirstMatchWins ==
    ret.st = "returned" /\ call.fn = "_find_main_content" =>
        LET els == call.soup.els
            chosen == ret.value
            Adjusted(i) == els[i].len - (IF els[i].name = "main" THEN 1000 ELSE 0)
            containers == {i \in DOMAIN els : els[i].attr = "id=jwxe_main_content"}
            mains == {i \in DOMAIN els : els[i].name = "main"}
            articles == {i \in DOMAIN els : els[i].name = "article"}
            roles == {i \in DOMAIN els : els[i].attr = "role=main"}
            divs == {i \in DOMAIN els :
                        /\ els[i].name = "div"
                        /\ els[i].attr \in {"class~content", "id~content"}}
        IN  IF containers # {}
            THEN /\ chosen.kind = "element" /\ chosen.i \in containers
                 /\ \A j \in containers : Adjusted(chosen.i) >= Adjusted(j)
            ELSE IF mains # {} THEN chosen = Element_(First(mains))
            ELSE IF articles # {} THEN chosen = Element_(First(articles))
            ELSE IF roles # {} THEN chosen = Element_(First(roles))
            ELSE IF divs # {}
            THEN /\ chosen.kind = "element" /\ chosen.i \in divs
                 /\ \A j \in divs : els[chosen.i].len >= els[j].len
            ELSE chosen = (IF call.soup.body THEN Body ELSE Soup)

\* two elements have the container id, a main tag with the longer text and
\* another tag; the other tag was chosen
C20_Witness ==
    /\ ret.st = "returned" /\ call.fn = "_find_main_content"
    /\ Len(call.soup.els) = 2
    /\ \A i \in 1..2 : call.soup.els[i].attr = "id=jwxe_main_content"
    /\ call.soup.els[1].name = "main" /\ call.soup.els[1].len = 1500
    /\ call.soup.els[2].name = "div" /\ call.soup.els[2].len = 600
    /\ ret.value = Element_(2)

RECURSIVE ChromeWords(_, _)
\* the characters of the strings that sit inside a chrome element of a
\* page: a removed tag, a comment, a hidden element
ChromeWords(node, inside) ==
    LET chrome == \/ inside
                  \/ node.name \in REMOVE_TAGS \cup {"#comment"}
                  \/ node.attr \in HIDDEN_ATTRS
    IN  (IF chrome THEN Range(node.text) ELSE {})
        \cup UNION {ChromeWords(node.kids[i], chrome) : i \in DOMAIN node.kids}

\* C21: the text extract_clean_text returns holds no text that occurs only
\* inside a chrome element (a removed tag, a comment, a hidden element),
\* whether the element is outside the selected main region, inside it or
\* around it
C21_NoChromeText ==
    (ret.st = "returned" /\ call.fn = "extract_clean_text")
        => Range(ret.value.text) \cap ChromeWords(call.soup, FALSE) = {}

\* a page whose main region is returned with the chrome inside it left out
C21_Witness ==
    /\ ret.st = "returned"
    /\ call.fn = "extract_clean_text"
    /\ "i1" \in ChromeWords(call.soup, FALSE)
    /\ "o2" \in ChromeWords(call.soup, FALSE)
    /\ ret.value.text = <<"o1">>

\* s in text
HasText(text, s) == \E i \in 1..(Len(text) - Len(s) + 1) : SubSeq(text, i, i + Len(s) - 1) = s

\* C22: for the sample page (a navigation bar of class gnb, a main region of
\* one article with the heading "T" and the paragraphs "para one" and
\* "para two", a footer, no title element) extract_with_metadata returns a
\* text with both paragraphs and without the text of the bar and the footer,
\* the title "T", and the paragraph count 3, the number of the blocks of the
\* text that blank lines separate
C22_SamplePage ==
    (ret.st = "returned" /\ call.fn = "extract_with_metadata" /\ call.soup = SAMPLE)
        => /\ HasText(ret.value.text, <<"para", " ", "one">>)
           /\ HasText(ret.value.text, <<"para", " ", "two">>)
           /\ ~HasText(ret.value.text, <<"menu">>)
           /\ ~HasText(ret.value.text, <<"foot">>)
           /\ ret.value.title = <<"T">>
           /\ ret.value.paragraphs = 3
           /\ ret.value.paragraphs
                  = Len(SelectSeq(Split(ret.value.text, <<"\n", "\n">>),
                                  LAMBDA p : StripWs(p) # <<>>))

\* C23: for a page with no body element (a fragment, plain text) the
\* extraction returns a result whose text is empty
C23_NoBodyEmptyText ==
    (ret.st = "returned" /\ call.fn \in {"extract_clean_text", "extract_with_metadata"}
     /\ \A i \in DOMAIN Descendants(call.soup) : Descendants(call.soup)[i].name # "body")
        => ret.value.text = <<>>

C24_PageNumWithinLimit ==
    pc \in {"sched", "list", "articles"} => page_num <= call.max_pages

\* C24: called with max_pages = N > 0, crawl_list_page and
\* crawl_schedule_lists advance over N listing pages at most: page_num never
\* exceeds N, and no pass of the loop begins once N pages have been passed,
\* whether a page was saved, skipped as already crawled, or rejected by the
\* quality filter
C24_AtMostMaxPages ==
    /\ C24_PageNumWithinLimit
    /\ pc \in {"sched", "list", "articles"} => page_num < call.max_pages

\* C25: crawl_static_from_sitemap hands no excluded URL to crawl_url: a
\* sitemap entry that is in EXCLUDED_URLS is skipped, every URL crawled is
\* under https://www.kumoh.ac.kr/ko/, and no URL is crawled twice in one
\* sitemap run
C25_SitemapExclusions ==
    (kind = "sitemap" /\ ev.op = "crawl_url")
        => /\ \A e \in EXCLUDED_URLS : ev.url # e /\ ev.url # RStrip(HttpsOf(e))
           /\ UnderKo(ev.url)
           /\ ev.url \notin Range(static_urls)
           /\ \A i, j \in DOMAIN static_urls : static_urls[i] = static_urls[j] => i = j

\* C26: check_and_notify returns matched = true exactly when the title holds
\* a keyword of KEYWORD_MAP, with keyword the category of the first such
\* keyword in map order and None when there is none; it sends no
\* notification for a title without keyword and one at most in any call; in
\* the demo loop new_found = notifications_sent + no_keyword_match
C26_MatchedIffKeyword ==
    /\ (ret.st = "returned" /\ call.fn = "check_and_notify")
           => LET hits == {i \in DOMAIN KEYWORD_MAP : KEYWORD_MAP[i][1] \in Range(call.title)}
                  first == CHOOSE i \in hits : \A j \in hits : i <= j
              IN  /\ ret.value.matched <=> hits # {}
                  /\ ret.value.keyword = IF hits = {} THEN "None" ELSE KEYWORD_MAP[first][2]
                  /\ hits = {} => ret.value.posts = 0
                  /\ ret.value.posts <= 1
    /\ (ret.st = "returned" /\ call.fn = "simulate_crawling")
           => ret.value.new_found
                  = ret.value.notifications_sent + ret.value.no_keyword_match

\* C27: in every state of a run of repeatCrawler or departmentCrawler,
\* success + failed + filtered <= total and filtered_date <= filtered:
\* every crawl_url counts one total and one outcome at most
C27_StatsBounded ==
    /\ stats.success + stats.failed + stats.filtered <= stats.total
    /\ stats.filtered_date <= stats.filtered

\* a run that has counted a saved page, a page filtered by its date and a
\* failed request
C27_Witness ==
    /\ kind = "repeat"
    /\ stats.success >= 1
    /\ stats.filtered_date >= 1
    /\ stats.failed >= 1
    /\ stats.total = stats.success + stats.failed + stats.filtered

\* C28: in every state of a crawler run, every URL of existing_urls has a
\* summary with that URL in saved_pages
C28_KnownUrlsHaveSummaries == existing_urls \subseteq UrlsOf(saved_pages)

\* a run without index to load from has saved an article of the board and
\* added it to existing_urls
C28_Witness ==
    /\ kind = "repeat"
    /\ indexFile.st = "absent"
    /\ ev.op = "crawl_list_page_article"
    /\ ev.url \in existing_urls
    /\ ev.url \in UrlsOf(saved_pages)

\* at most one summary for each URL
OnePerUrl(pages) == \A i, j \in DOMAIN pages : pages[i].url = pages[j].url => i = j

\* C29: starting from an index with one summary per URL at most, after any
\* sequence of runs saved_pages and the written index still hold one summary
\* per URL at most
C29_OneSummaryPerUrl == OnePerUrl(saved_pages) /\ OnePerUrl(indexFile.pages)


\* a second run on an index of two summaries has skipped a known URL and
\* written the index again
C29_Witness ==
    /\ runs = 2
    /\ kind = "repeat"
    /\ stats.skipped >= 1
    /\ Len(saved_pages) >= 2
    /\ indexFile.st = "ok"
    /\ indexFile.pages = saved_pages
    /\ pc = "done"

=============================================================================
